---- MODULE Spec2Model ----
(***************************************************************************)
(* Model of the nodeprop manager core: the TTL cache (pkg/nodeprop/cache.go)*)
(* and the handler-based event bus (pkg/nodeprop/event.go).                 *)
(*                                                                         *)
(* Time is the value of time.Now().UnixNano(), scaled to small integers.    *)
(* The specifications share the variables, among them:                     *)
(*   Spec      cache calls made one at a time, the clock, the background    *)
(*             sweep goroutine and the manager's Shutdown;                  *)
(*   ConcSpec  cache calls of concurrent goroutines, one lock operation or  *)
(*             memory access per step;                                      *)
(*   BusSpec   Subscribe / Unsubscribe / AddMiddleware / Publish and the    *)
(*             handler goroutines Publish spawns;                           *)
(*   MgrSpec   AddWorkflow / AddSecret / GenerateNodeProp of the Manager,   *)
(*             one step per collaborator, cache and emitter call;           *)
(*   FileSpec  AddWorkflow of the file-copy manager;                        *)
(*   SigSpec   the signal handling of cmd/main.go and of the manager;       *)
(*   LocalSpec the local event consumer and its Store;                     *)
(*   TuiSpec   Subscribe / Unsubscribe / Dispatch of the TUI state store,  *)
(*             called from concurrent goroutines;                          *)
(*   GhSpec    AddWorkflow and CheckFile of GitHubOperations.              *)
(***************************************************************************)
EXTENDS Integers, Sequences, FiniteSets, Bags, TLC

\* ------------------------------------------------------------------ bounds
MaxTime == 3
MaxCap == 2
MaxEvictions == 2
MaxLookups == 1
MaxSubs == 3
MaxPubs == 2
MaxMw == 2
MaxConcSubs == 2
MaxChans == 2
\* the capacity of a subscriber channel and of a stream (100 in the code)
ChanCap == 1
\* the capacity of RegistryEventConsumer.events (1000 in the code), its
\* batchSize (100 in the code) and the number of Consume calls
QueueCap == 2
BatchSize == 2
MaxOffers == 5
\* the channels subscribed on the Manager's bus
MaxMgrSubs == 1
\* the signals sent to the process
MaxSignals == 3
\* the calls of LocalEventConsumer.Consume
MaxConsumes == 3

\* ------------------------------------------------------- program constants
\* math.MaxInt64, the initial oldestTime of evictOldest.  TLC integers are
\* 32 bits wide, so the largest TLC integer stands for it; every Expiration
\* of the model is far below it, as every real UnixNano timestamp is.
MaxInt64 == 2147483647
\* period of the sweep ticker, in model time units
cleanupInterval == 2
\* the clock reading at construction
StartTime == 1

\* ------------------------------------------------------------------ inputs
Threads == {"g1", "g2"}
None == "none"
Keys == {"", "a", "b"}
Values == {"v1", "v2"}
\* the <<key, value>> pairs callers store: every key with one value, and one
\* key with a second value
KeyValues == {kv \in Keys \X Values : kv[2] = "v1" \/ kv[1] = "a"}
TTLs == {-1, 0, 1}
\* WithExpiration: no expiry by default, or a default longer than every ttl
Defaults == {-1, 2}
Nil == "nil"
EventTypes == {"workflow", "secret"}
\* an EventHandler that returns nil and one that returns an error
Handlers == {"hOk", "hErr"}
Middlewares == {"LoggingMiddleware", "MetricsMiddleware"}
\* goroutines that call the bus, and the goroutine of a handler that calls it
\* EventMiddleware values a caller supplies: one renames the event, one sends
\* renamed events to another type
CallerMiddlewares == {"mwRename", "mwRoute"}
\* EventHandler values a caller supplies: one returns nil, one unsubscribes its
\* own subscription and returns nil
CallerHandlers == {"hOk", "hOnce"}
\* one goroutine publishes while another subscribes, unsubscribes and adds
\* middleware and a third runs the handlers that call the bus
Publishers == {"p1"}
Writers == {"p2"}
HandlerThreads == {"h1"}
BusThreads == Publishers \cup Writers \cup HandlerThreads
\* what these goroutines pass to the bus
PubTypes == {"workflow"}
PubMiddlewares == {"mwRename"}
\* the events callers publish
\* Timestamp 0 is the zero time.Time; the second event carries a timestamp
\* its publisher has set
PubEvents ==
    {[ID |-> "e1", Type |-> "workflow", Name |-> "WorkflowAdded", Data |-> "d1",
      Timestamp |-> 0],
     [ID |-> "e2", Type |-> "secret", Name |-> "SecretAdded", Data |-> "d2",
      Timestamp |-> StartTime + 1]}

VARIABLES
    items,              \* Cache.items: key -> CacheItem
    stats,              \* Cache.stats
    now,                \* time.Now().UnixNano()
    maxItems,           \* Cache.maxItems
    defaultExpiration,  \* Cache.defaultExpiration
    ret,                \* the most recent completed cache call and its result
    tickPending,        \* a tick waits in ticker.C (buffer of one)
    disposed,           \* the owning manager has shut down
    th,                 \* per goroutine: position in its cache call, arguments, register
    mu,                 \* Cache.mu: the write holder and the set of read holders
    lookups,            \* lookups that have executed their counter increment
    subscribers,        \* EventBus.subscribers: type -> (subscription id -> handler)
    middleware,         \* EventBus.middleware
    handles,            \* the EventSubscription values Subscribe has returned, by id
    published,          \* the events passed to Publish, in call order
    consumed,           \* the events passed to consumer.Consume, in call order
    inflight,           \* handler goroutines started and not yet run (a bag)
    handled,            \* handler invocations that have returned (a bag)
    bmu,                \* EventBus.mu: the write holder and the set of read holders
    frames,             \* per goroutine: its position in Publish or in a handler
    wcall,              \* per goroutine: the call it makes under EventBus.mu.Lock
    consumeLog,         \* consumer.Consume calls: publish number, caller, event, error
    unsubbed,           \* the subscription ids whose Unsubscribe has returned
    fatal,              \* the runtime has stopped the process (fatal error)
    chans,              \* channel bus: the subscriber channels, [Type, buf] in Subscribe order
    emitted,            \* channel bus: the events passed to Publish / Emit, in call order
    got,                \* <<"chan" or "stream", subscriber, publish number>> a reader has received
    full,               \* <<"chan" or "stream", subscriber, publish number>> whose send met a full buffer
    streamBuf,          \* EventStream.events: <<subscription, publish number>> waiting in the buffer
    stream,             \* "none", "open" or "closed" (EventStream.done)
    closedAt,           \* the number of Publish calls made when Close returned
    queue,              \* RegistryEventConsumer.events: the events waiting in the channel
    batch,              \* processEvents: its local batch
    sent,               \* the batches passed to client.SendEvents, with its result
    consumeRet,         \* per Consume call: was its ctx done, and what it returned
    proc,               \* processEvents: "new", "running" or "returned"
    procCtxDone,        \* the ctx passed to Start is done
    recTick,            \* a tick waits in processEvents' ticker.C (buffer of one)
    ops,                \* the Manager operations called so far: arguments, position, result
    ghCalls,            \* the calls made on the GitHub collaborator / workflow processor
    store,              \* Store: key -> value
    uuids,              \* the number of uuid.New() calls so far
    lru,                \* cache of the caching manager: "nil", or RepoPath -> NodePropFile
    fs,                 \* the target repositories' files: path -> content
    assets,             \* the files of ./assets: name -> content
    impl,               \* the signal handling the process runs: "none", "main" or "manager"
    signals,            \* the signals sent to the process so far
    SignalCh,           \* the channel given to signal.Notify (buffer of one)
    ActionCh,           \* SignalHandler.ActionCh of cmd/main.go (buffer of one)
    listener,           \* the goroutine reading SignalCh: where it stands
    reloads,            \* the number of ReloadConfig calls made
    shutdowns,          \* the number of "shutdown" actions handled by main's action loop
    exited,             \* os.Exit has been called
    storeSets,          \* LocalEventConsumer: the Store.Set calls made, with their outcome
    localRets,          \* LocalEventConsumer: the events passed to Consume, with what it returned
    storeMu,            \* TUI Store.mu: the write holder and the set of read holders
    storeSubs,          \* TUI Store.subs: subscriber id -> its channels, in Subscribe order
    storeChans,         \* the channels Subscribe has made: [buf, closed]
    state,              \* TUI Store.state: the number of actions applied to it
    calls,              \* per goroutine: its position in a call of the Store
    crashed,            \* the panic or fatal error that has stopped the TUI process
    remote,             \* the files of the GitHub repository: path -> content
    fileCache,          \* GitHubOperations.cache: key -> the content cached by CheckFile
    checks              \* the CheckFile calls made: path, what it returned, from where

cacheVars == <<items, stats, now, maxItems, defaultExpiration, ret,
               tickPending, disposed>>

concVars == <<th, mu, lookups>>

busVars == <<subscribers, middleware, handles, published, consumed,
             inflight, handled>>

pubVars == <<bmu, frames, wcall, consumeLog, unsubbed, fatal>>

chanVars == <<chans, emitted, got, full, streamBuf, stream, closedAt>>

recVars == <<queue, batch, sent, consumeRet, proc, procCtxDone, recTick>>

mgrVars == <<ops, ghCalls, store, uuids, lru>>

fileVars == <<fs, assets>>

sigVars == <<impl, signals, SignalCh, ActionCh, listener, reloads, shutdowns, exited>>

localVars == <<storeSets, localRets>>

tuiVars == <<storeMu, storeSubs, storeChans, state, calls, crashed>>

ghVars == <<remote, fileCache, checks>>

vars == <<cacheVars, concVars, busVars, pubVars, chanVars, recVars, mgrVars,
          fileVars, sigVars, localVars, tuiVars, ghVars>>

\* what the calls of one component leave alone
outsideCache == <<concVars, busVars, pubVars, chanVars, recVars, mgrVars, fileVars, sigVars, localVars, tuiVars, ghVars>>
outsideConc == <<busVars, pubVars, chanVars, recVars, mgrVars, fileVars, sigVars, localVars, tuiVars, ghVars>>
outsideBus == <<cacheVars, concVars, pubVars, chanVars, recVars, mgrVars, fileVars, sigVars, localVars, tuiVars, ghVars>>
outsidePub == <<cacheVars, concVars, chanVars, recVars, mgrVars, fileVars, sigVars, localVars, tuiVars, ghVars>>
outsideChan == <<cacheVars, concVars, pubVars, recVars, mgrVars, fileVars, sigVars, localVars, tuiVars, ghVars>>
outsideRec == <<cacheVars, concVars, busVars, pubVars, chanVars, mgrVars, fileVars, sigVars, localVars, tuiVars, ghVars>>
\* the Manager calls the cache and the channel bus
outsideMgr == <<concVars, busVars, pubVars, recVars, fileVars, sigVars, localVars, tuiVars, ghVars>>
\* the file-copy manager uses the call records and the uuid generator
outsideFile == <<cacheVars, concVars, busVars, pubVars, chanVars, recVars,
                 ghCalls, store, lru, sigVars, localVars, tuiVars, ghVars>>
outsideSig == <<cacheVars, concVars, busVars, pubVars, chanVars, recVars, mgrVars,
                fileVars, localVars, tuiVars, ghVars>>
\* the local consumer writes to the Store
outsideLocal == <<cacheVars, concVars, busVars, pubVars, chanVars, recVars,
                  ops, ghCalls, uuids, lru, fileVars, sigVars, tuiVars, ghVars>>
outsideTui == <<cacheVars, concVars, busVars, pubVars, chanVars, recVars, mgrVars,
                fileVars, sigVars, localVars, ghVars>>
outsideGh == <<cacheVars, concVars, busVars, pubVars, chanVars, recVars, mgrVars,
               fileVars, sigVars, localVars, tuiVars>>

\* ------------------------------------------------------------ cache helpers
CacheItem(v, e) == [Value |-> v, Expiration |-> e]

Remove(it, ks) == [k \in (DOMAIN it) \ ks |-> it[k]]

Put(it, key, item) == [k \in (DOMAIN it) \cup {key} |->
                          IF k = key THEN item ELSE it[k]]

ItemCount(it) == Cardinality(DOMAIN it)

\* every order in which `for k, v := range c.items` may visit the keys
RangeOrders(it) ==
    {o \in [1..ItemCount(it) -> DOMAIN it] : \A i, j \in 1..ItemCount(it) : i # j => o[i] # o[j]}

\* Set without lines 91-93: a zero ttl is not mapped to the default
SetExpiration_NoDefault(duration, t, dflt) ==
    IF duration > 0 THEN t + duration ELSE 0

\* Set, lines 89-97: the Expiration stored for a ttl
SetExpiration(duration, t, dflt) ==
    LET d == IF duration = 0 THEN dflt ELSE duration
    IN IF d > 0 THEN t + d ELSE 0

\* Get, lines 120-133: <<value, found>>
GetResult(it, key, t) ==
    IF key \notin DOMAIN it THEN <<Nil, FALSE>>
    ELSE IF it[key].Expiration > 0 /\ t > it[key].Expiration THEN <<Nil, FALSE>>
    ELSE <<it[key].Value, TRUE>>

\* Items, lines 185-189: the keys of the returned map
ItemsKeys(it, t) ==
    {k \in DOMAIN it : it[k].Expiration = 0 \/ t < it[k].Expiration}

\* line 225 without the `v.Expiration > 0` test
IsExpired_NoZeroTest(item, t) == t > item.Expiration

\* DeleteExpired, line 225: the entries the scan deletes
IsExpired(item, t) == item.Expiration > 0 /\ t > item.Expiration

\* a scan that stops at the first entry it deletes
ExpiredKeys_FirstOnly(it, t) ==
    LET all == {k \in DOMAIN it : IsExpired(it[k], t)}
    IN IF all = {} THEN {} ELSE {CHOOSE k \in all : TRUE}

ExpiredKeys(it, t) == {k \in DOMAIN it : IsExpired(it[k], t)}

\* evictOldest, lines 236-244: the loop over the map in visiting order o,
\* from position i with the running <<oldestKey, oldestTime>>
RECURSIVE OldestLoop(_, _, _, _)
OldestLoop(it, o, i, acc) ==
    IF i > ItemCount(it) THEN acc
    ELSE LET k == o[i]
         IN IF it[k].Expiration < acc[2]
            THEN OldestLoop(it, o, i + 1, <<k, it[k].Expiration>>)
            ELSE OldestLoop(it, o, i + 1, acc)

OldestKey(it, o) == OldestLoop(it, o, 1, <<"", MaxInt64>>)[1]

\* evictOldest, lines 246-249: <<items, evictions>> after the call
EvictOldest(it, ev, o) ==
    LET oldestKey == OldestKey(it, o)
    IN IF oldestKey # "" THEN <<Remove(it, {oldestKey}), ev + 1>>
       ELSE <<it, ev>>

\* the record of a completed call: its name; for a Set the key, value and ttl
\* passed; for a lookup the key and the returned <<value, found>>; for a sweep
\* the time read, the goroutine and whether the call before it was a sweep too
Ret(op, key, value, found, ttl, at, by) ==
    [op |-> op, key |-> key, value |-> value, found |-> found, ttl |-> ttl,
     at |-> at, by |-> by,
     again |-> (op = "DeleteExpired" /\ ret.op = "DeleteExpired")]

\* --------------------------------------------------------------------- Init
CacheInit ==
    /\ items = [k \in {} |-> CacheItem(Nil, 0)]
    /\ stats = [Hits |-> 0, Misses |-> 0, Evictions |-> 0, Size |-> 0]
    /\ now = StartTime
    /\ maxItems \in 1..MaxCap
    /\ defaultExpiration \in Defaults
    /\ ret = [op |-> "NewCache", key |-> "", value |-> Nil, found |-> FALSE,
              ttl |-> 0, at |-> 0, by |-> "caller", again |-> FALSE]
    /\ tickPending = FALSE
    /\ disposed = FALSE

IdleThread == [pc |-> "idle", op |-> None, key |-> "", value |-> Nil, ttl |-> 0,
               field |-> None, reg |-> 0]

ConcInit ==
    /\ th = [t \in Threads |-> IdleThread]
    /\ mu = [writer |-> None, readers |-> {}]
    /\ lookups = 0

\* ----------------------------------------------------- cache calls (atomic)
Set(key, value, duration) ==
    /\ stats.Evictions < MaxEvictions
    /\ \E ev \in (IF ItemCount(items) >= maxItems
                  THEN {EvictOldest(items, stats.Evictions, o) : o \in RangeOrders(items)}
                  ELSE {<<items, stats.Evictions>>}) :
         LET expiration == SetExpiration(duration, now, defaultExpiration)
             it == Put(ev[1], key, CacheItem(value, expiration))
         IN /\ items' = it
            /\ stats' = [stats EXCEPT !.Evictions = ev[2], !.Size = ItemCount(it)]
    /\ ret' = Ret("Set", key, value, FALSE, duration, 0, "caller")
    /\ UNCHANGED <<now, maxItems, defaultExpiration, tickPending, disposed>>

Get(key) ==
    /\ stats.Hits + stats.Misses < MaxLookups
    /\ LET r == GetResult(items, key, now)
       IN /\ stats' = IF r[2] THEN [stats EXCEPT !.Hits = @ + 1]
                             ELSE [stats EXCEPT !.Misses = @ + 1]
          /\ ret' = Ret("Get", key, r[1], r[2], 0, 0, "caller")
    /\ UNCHANGED <<items, now, maxItems, defaultExpiration, tickPending, disposed>>

Delete(key) ==
    /\ items' = Remove(items, {key})
    /\ stats' = [stats EXCEPT !.Size = ItemCount(items')]
    /\ ret' = Ret("Delete", "", Nil, FALSE, 0, 0, "caller")
    /\ UNCHANGED <<now, maxItems, defaultExpiration, tickPending, disposed>>

\* Clear without line 174: the Size of the statistics is left as it was
Clear_KeepsSize ==
    /\ items' = Remove(items, DOMAIN items)
    /\ stats' = stats
    /\ ret' = Ret("Clear", "", Nil, FALSE, 0, 0, "caller")
    /\ UNCHANGED <<now, maxItems, defaultExpiration, tickPending, disposed>>

Clear ==
    /\ items' = Remove(items, DOMAIN items)
    /\ stats' = [stats EXCEPT !.Size = 0]
    /\ ret' = Ret("Clear", "", Nil, FALSE, 0, 0, "caller")
    /\ UNCHANGED <<now, maxItems, defaultExpiration, tickPending, disposed>>

\* DeleteExpired, lines 219-232, run by goroutine `by`
DeleteExpiredBody(by) ==
    /\ stats.Evictions + Cardinality(ExpiredKeys(items, now)) <= MaxEvictions
    /\ items' = Remove(items, ExpiredKeys(items, now))
    /\ stats' = [stats EXCEPT
                   !.Evictions = @ + Cardinality(ExpiredKeys(items, now)),
                   !.Size = ItemCount(items')]
    /\ ret' = Ret("DeleteExpired", "", Nil, FALSE, 0, now, by)

DeleteExpired ==
    /\ DeleteExpiredBody("caller")
    /\ UNCHANGED <<now, maxItems, defaultExpiration, tickPending, disposed>>

\* startCleanup, lines 213-215: one iteration of `for range ticker.C`
SweepTick ==
    /\ tickPending
    /\ tickPending' = FALSE
    /\ DeleteExpiredBody("sweep")
    /\ UNCHANGED <<now, maxItems, defaultExpiration, disposed>>

\* time passes
Advance ==
    /\ now < MaxTime
    /\ now' = now + 1
    /\ UNCHANGED <<items, stats, maxItems, defaultExpiration, ret, disposed>>

Tick == Advance /\ UNCHANGED tickPending

\* time passes and the ticker of startCleanup (line 210) fires once every
\* cleanupInterval; a tick not yet taken by the loop is not queued twice
TickerTick ==
    /\ Advance
    /\ tickPending' = (tickPending \/ ((now' - StartTime) % cleanupInterval = 0))

\* NodePropManager.Shutdown: flushes the cache; nothing stops the sweep
Shutdown ==
    /\ ~disposed
    /\ disposed' = TRUE
    /\ UNCHANGED <<items, stats, now, maxItems, defaultExpiration, ret, tickPending>>

\* NewEventBus, lines 333-345
BusInit ==
    /\ subscribers = [ty \in EventTypes |-> <<>>]
    /\ middleware = <<>>
    /\ handles = <<>>
    /\ published = <<>>
    /\ consumed = <<>>
    /\ inflight = EmptyBag
    /\ handled = EmptyBag

\* the calls that take EventBus.mu.Lock, with their arguments
NoCall == [op |-> "none", ty |-> "", id |-> 0, handler |-> "", mw |-> ""]
SubscribeCall(eventType, handler) == [NoCall EXCEPT !.op = "Subscribe", !.ty = eventType,
                                                    !.handler = handler]
UnsubscribeCall(sub) == [NoCall EXCEPT !.op = "Unsubscribe", !.ty = sub.Type, !.id = sub.ID]
AddMiddlewareCall(mw) == [NoCall EXCEPT !.op = "AddMiddleware", !.mw = mw]

\* the goroutines calling the TUI Store
StoreThreads == {"u1", "u2"}

\* no call of the Store in progress in a goroutine: op is the call, id its
\* argument, snap the state notify copied, seen the subscriber ids its outer
\* loop has produced, chs and i the slice and position of its inner loop
IdleCall == [op |-> "idle", pc |-> "idle", id |-> "", snap |-> 0, seen |-> {},
             chs |-> <<>>, i |-> 0]

\* no goroutine is inside a call of the bus
IdleFrame ==
    [pc |-> "idle", pub |-> 0, chain |-> <<>>, i |-> 0, event |-> <<>>,
     known |-> 0, gone |-> {}, snap |-> {}, visited |-> {}, g |-> <<>>]

PubInit ==
    /\ bmu = [w |-> None, r |-> {}]
    /\ frames = [t \in BusThreads |-> IdleFrame]
    /\ wcall = [t \in BusThreads |-> NoCall]
    /\ consumeLog = <<>>
    /\ unsubbed = {}
    /\ fatal = FALSE

\* NewEventBus of the channel bus, part_003 lines 285-289; no stream yet
ChanInit ==
    /\ chans = <<>>
    /\ emitted = <<>>
    /\ got = {}
    /\ full = {}
    /\ streamBuf = <<>>
    /\ stream = None
    /\ closedAt = 0

\* NewRegistryEventConsumer, event.go lines 249-256
RecInit ==
    /\ queue = <<>>
    /\ batch = <<>>
    /\ sent = <<>>
    /\ consumeRet = <<>>
    /\ proc = "new"
    /\ procCtxDone = FALSE
    /\ recTick = FALSE

\* NewNodePropManager, part_003 lines 136-156; CreateManager, lines 221-238
MgrInit ==
    /\ ops = <<>>
    /\ ghCalls = <<>>
    /\ store = [k \in {} |-> Nil]
    /\ uuids = 0
    /\ lru = [on |-> FALSE, m |-> [k \in {} |-> Nil]]

\* the file-copy manager: nothing written yet
FileInit ==
    /\ fs = [k \in {} |-> Nil]
    /\ assets = [k \in {} |-> Nil]

\* the process before it has installed its signal handling
SigInit ==
    /\ impl = "none"
    /\ signals = <<>>
    /\ SignalCh = <<>>
    /\ ActionCh = <<>>
    /\ listener = "run"
    /\ reloads = 0
    /\ shutdowns = 0
    /\ exited = FALSE

\* NewLocalEventConsumer, event.go lines 307-312: nothing consumed yet
LocalInit ==
    /\ storeSets = <<>>
    /\ localRets = <<>>

\* NewStore, cmd/tui/state/store.go lines 36-46
StoreInit ==
    /\ storeMu = [w |-> None, r |-> {}]
    /\ storeSubs = [id \in {} |-> <<>>]
    /\ storeChans = <<>>
    /\ state = 0
    /\ calls = [t \in StoreThreads |-> IdleCall]
    /\ crashed = None

\* NewGitHubOperations, github_ops.go lines 32-43, with an empty cache and a
\* repository without workflow files
GhInit ==
    /\ remote = [p \in {} |-> <<>>]
    /\ fileCache = [k \in {} |-> <<>>]
    /\ checks = <<>>

Init ==
    /\ CacheInit /\ ConcInit /\ BusInit /\ PubInit /\ ChanInit /\ RecInit /\ MgrInit
    /\ FileInit /\ SigInit /\ LocalInit /\ StoreInit /\ GhInit

\* the bus next to a cache with the one configuration NewCache() gives
BusOnlyInit == Init /\ maxItems = MaxCap /\ defaultExpiration = 2

\* Calls made one at a time.  The sweep goroutine's DeleteExpired is the same
\* code as a caller's, which may be called here at any time.
Next ==
    \/ \E kv \in KeyValues, d \in TTLs : Set(kv[1], kv[2], d) /\ UNCHANGED outsideCache
    \/ \E k \in Keys : Get(k) /\ UNCHANGED outsideCache
    \/ \E k \in Keys : Delete(k) /\ UNCHANGED outsideCache
    \/ Clear /\ UNCHANGED outsideCache
    \/ DeleteExpired /\ UNCHANGED outsideCache
    \/ Tick /\ UNCHANGED outsideCache

Spec == Init /\ [][Next]_vars

\* The cache together with its background sweep and its owner's shutdown.
SweepNext ==
    \/ \E kv \in KeyValues, d \in TTLs : Set(kv[1], kv[2], d) /\ UNCHANGED outsideCache
    \/ \E k \in Keys : Delete(k) /\ UNCHANGED outsideCache
    \/ Clear /\ UNCHANGED outsideCache
    \/ DeleteExpired /\ UNCHANGED outsideCache
    \/ SweepTick /\ UNCHANGED outsideCache
    \/ TickerTick /\ UNCHANGED outsideCache
    \/ Shutdown /\ UNCHANGED outsideCache

SweepSpec == Init /\ [][SweepNext]_vars

\* ---------------------------------------------- cache calls of goroutines
\* One step per lock operation and per memory access of the statistics.  The
\* clock stands still here, so the time a call reads before it takes the lock
\* is the time of its critical section.
ConcKeys == {"a", "b"}
ConcTTLs == {-1, 1}

Go(t, pc) == th' = [th EXCEPT ![t].pc = pc]

\* Get / GetWithExpiration, lines 117 and 138: c.mu.RLock()
RLock(t, op, key) ==
    /\ th[t].pc = "idle"
    /\ mu.writer = None
    /\ lookups + Cardinality({u \in Threads : th[u].pc \in {"load", "store"}}) < MaxLookups + 1
    /\ mu' = [mu EXCEPT !.readers = @ \cup {t}]
    /\ th' = [th EXCEPT ![t] = [IdleThread EXCEPT !.pc = "load", !.op = op, !.key = key]]
    /\ UNCHANGED <<cacheVars, lookups>>

\* the counter the lookup increments: Get lines 121-132,
\* GetWithExpiration lines 142-155 (no counter on the path of line 152)
CounterOf(op, it, key, t) ==
    IF key \notin DOMAIN it THEN "Misses"
    ELSE IF it[key].Expiration > 0
         THEN IF t > it[key].Expiration THEN "Misses"
              ELSE IF op = "Get" THEN "Hits" ELSE None
         ELSE "Hits"

\* the read half of c.stats.Hits++ or c.stats.Misses++
Load(t) ==
    /\ th[t].pc = "load"
    /\ LET f == CounterOf(th[t].op, items, th[t].key, now)
       IN th' = [th EXCEPT ![t].field = f,
                           ![t].reg = IF f = None THEN 0 ELSE stats[f],
                           ![t].pc = IF f = None THEN "runlock" ELSE "store"]
    /\ UNCHANGED <<cacheVars, mu, lookups>>

\* the write half of the increment
Store(t) ==
    /\ th[t].pc = "store"
    /\ stats' = [stats EXCEPT ![th[t].field] = th[t].reg + 1]
    /\ lookups' = lookups + 1
    /\ Go(t, "runlock")
    /\ UNCHANGED <<items, now, maxItems, defaultExpiration, ret, tickPending, disposed, mu>>

\* the deferred c.mu.RUnlock()
RUnlock(t) ==
    /\ th[t].pc = "runlock"
    /\ mu' = [mu EXCEPT !.readers = @ \ {t}]
    /\ th' = [th EXCEPT ![t] = IdleThread]
    /\ UNCHANGED <<cacheVars, lookups>>

\* Set line 99, Delete line 161, Clear line 170, DeleteExpired line 221:
\* c.mu.Lock()
Lock(t, op, key, value, ttl) ==
    /\ th[t].pc = "idle"
    /\ mu.writer = None /\ mu.readers = {}
    /\ op = "Set" => stats.Evictions < MaxEvictions
    /\ mu' = [mu EXCEPT !.writer = t]
    /\ th' = [th EXCEPT ![t] = [IdleThread EXCEPT !.pc = "body", !.op = op,
                                   !.key = key, !.value = value, !.ttl = ttl]]
    /\ UNCHANGED <<cacheVars, lookups>>

\* the critical section of the writer
Body(t) ==
    /\ th[t].pc = "body"
    /\ \/ th[t].op = "Set" /\ Set(th[t].key, th[t].value, th[t].ttl)
       \/ th[t].op = "Delete" /\ Delete(th[t].key)
       \/ th[t].op = "Clear" /\ Clear
       \/ th[t].op = "DeleteExpired" /\ DeleteExpired
    /\ Go(t, "unlock")
    /\ UNCHANGED <<mu, lookups>>

\* the deferred c.mu.Unlock()
Unlock(t) ==
    /\ th[t].pc = "unlock"
    /\ mu' = [mu EXCEPT !.writer = None]
    /\ th' = [th EXCEPT ![t] = IdleThread]
    /\ UNCHANGED <<cacheVars, lookups>>

ConcNext ==
    \/ \E t \in Threads, op \in {"Get", "GetWithExpiration"}, k \in ConcKeys : RLock(t, op, k) /\ UNCHANGED outsideConc
    \/ \E t \in Threads : Load(t) /\ UNCHANGED outsideConc
    \/ \E t \in Threads : Store(t) /\ UNCHANGED outsideConc
    \/ \E t \in Threads : RUnlock(t) /\ UNCHANGED outsideConc
    \/ \E t \in Threads, k \in ConcKeys, d \in ConcTTLs : Lock(t, "Set", k, "v1", d) /\ UNCHANGED outsideConc
    \/ \E t \in Threads, k \in ConcKeys : Lock(t, "Delete", k, Nil, 0) /\ UNCHANGED outsideConc
    \/ \E t \in Threads, op \in {"Clear", "DeleteExpired"} : Lock(t, op, "", Nil, 0) /\ UNCHANGED outsideConc
    \/ \E t \in Threads : Body(t) /\ UNCHANGED outsideConc
    \/ \E t \in Threads : Unlock(t) /\ UNCHANGED outsideConc

ConcSpec == Init /\ [][ConcNext]_vars

\* ---------------------------------------------------------- the event bus
\* uuid.New(): an id no earlier subscription has
NewId == Len(handles) + 1

\* Subscribe, lines 66-85
Subscribe(eventType, handler) ==
    /\ Len(handles) < MaxSubs
    /\ subscribers' = [subscribers EXCEPT ![eventType] = Put(@, NewId, handler)]
    /\ handles' = Append(handles, [ID |-> NewId, Type |-> eventType, Handler |-> handler])
    /\ UNCHANGED <<middleware, published, consumed, inflight, handled>>

\* an unsubscribe that deletes nothing
Unsubscribe_NoDelete(sub) ==
    UNCHANGED <<subscribers, middleware, handles, published, consumed, inflight, handled>>

\* EventSubscription.Unsubscribe and EventBus.unsubscribe, lines 88-99
Unsubscribe(sub) ==
    /\ subscribers' = [subscribers EXCEPT ![sub.Type] = Remove(@, {sub.ID})]
    /\ UNCHANGED <<middleware, handles, published, consumed, inflight, handled>>

\* AddMiddleware, lines 131-135
AddMiddleware(mw) ==
    /\ Len(middleware) < MaxMw
    /\ middleware' = Append(middleware, mw)
    /\ UNCHANGED <<subscribers, handles, published, consumed, inflight, handled>>

\* mw(event), line 351.  LoggingMiddleware and MetricsMiddleware, lines
\* 209-223, return the event they are given; a caller's middleware returns
\* another event
ApplyMiddleware(mw, event) ==
    CASE mw = "mwRename" -> [event EXCEPT !.Name = "Renamed"]
      [] mw = "mwRoute" -> IF event.Name = "Renamed"
                           THEN [event EXCEPT !.Type = "secret"]
                           ELSE event
      [] OTHER -> event

\* a loop that runs the chain from its last stage to its first
RECURSIVE RunMiddleware_Reverse(_, _, _)
RunMiddleware_Reverse(chain, i, event) ==
    IF i > Len(chain) THEN event
    ELSE ApplyMiddleware(chain[i], RunMiddleware_Reverse(chain, i + 1, event))

\* Publish, lines 350-352: the event after stages i.. of the chain
RECURSIVE RunMiddleware(_, _, _)
RunMiddleware(chain, i, event) ==
    IF i > Len(chain) THEN event
    ELSE RunMiddleware(chain, i + 1, ApplyMiddleware(chain[i], event))

\* a fan-out that ignores the event type (no lookup by event.Type at line 361)
Spawned_AllTypes(subs, event, pub) ==
    SetToBag({[sub |-> id, handler |-> subs[ty][id], pub |-> pub, event |-> event] :
                <<ty, id>> \in {x \in EventTypes \X (1..MaxSubs) : x[2] \in DOMAIN subs[x[1]]}})

\* the goroutines the loop of lines 364-372 starts for publish number pub
Spawned(subs, event, pub) ==
    SetToBag({[sub |-> id, handler |-> subs[event.Type][id], pub |-> pub, event |-> event] :
                id \in DOMAIN subs[event.Type]})

\* Publish, lines 348-373
Publish(event) ==
    /\ Len(published) < MaxPubs
    /\ LET pub == Len(published) + 1
           e == RunMiddleware(middleware, 1, event)
       IN /\ published' = Append(published, event)
          /\ consumed' = Append(consumed, e)
          /\ inflight' = inflight (+) Spawned(subscribers, e, pub)
    /\ UNCHANGED <<subscribers, middleware, handles, handled>>

\* the error a handler returns
HandlerFails(handler) == handler = "hErr"

\* a failing handler that takes the goroutines not yet run down with it
Deliver_FailStopsOthers(g) ==
    /\ BagIn(g, inflight)
    /\ inflight' = IF HandlerFails(g.handler) THEN EmptyBag ELSE inflight (-) SetToBag({g})
    /\ handled' = handled (+) SetToBag({[sub |-> g.sub, handler |-> g.handler, pub |-> g.pub,
                                          event |-> g.event,
                                          err |-> HandlerFails(g.handler)]})
    /\ UNCHANGED <<subscribers, middleware, handles, published, consumed>>

\* a goroutine of lines 365-371 runs its handler; an error is logged
Deliver(g) ==
    /\ BagIn(g, inflight)
    /\ inflight' = inflight (-) SetToBag({g})
    /\ handled' = handled (+) SetToBag({[sub |-> g.sub, handler |-> g.handler, pub |-> g.pub,
                                          event |-> g.event,
                                          err |-> HandlerFails(g.handler)]})
    /\ UNCHANGED <<subscribers, middleware, handles, published, consumed>>

BusNext ==
    \/ \E ty \in EventTypes, h \in Handlers : Subscribe(ty, h) /\ UNCHANGED outsideBus
    \/ \E i \in 1..Len(handles) : Unsubscribe(handles[i]) /\ UNCHANGED outsideBus
    \/ \E mw \in Middlewares : AddMiddleware(mw) /\ UNCHANGED outsideBus
    \/ \E e \in PubEvents : Publish(e) /\ UNCHANGED outsideBus
    \/ \E g \in BagToSet(inflight) : Deliver(g) /\ UNCHANGED outsideBus

BusSpec == BusOnlyInit /\ [][BusNext]_vars

\* the same calls on a bus whose middleware changes the events
ChainNext ==
    \/ \E ty \in EventTypes : Subscribe(ty, "hOk") /\ UNCHANGED outsideBus
    \/ \E i \in 1..Len(handles) : Unsubscribe(handles[i]) /\ UNCHANGED outsideBus
    \/ \E mw \in CallerMiddlewares : AddMiddleware(mw) /\ UNCHANGED outsideBus
    \/ \E e \in PubEvents : Publish(e) /\ UNCHANGED outsideBus
    \/ \E g \in BagToSet(inflight) : Deliver(g) /\ UNCHANGED outsideBus

ChainSpec == BusOnlyInit /\ [][ChainNext]_vars

\* ------------------------------------------- the event bus, goroutine by goroutine
\* Publish, Subscribe, Unsubscribe and AddMiddleware called from several
\* goroutines, one lock operation or one loop iteration at a time.

\* the goroutine holding eb.mu.Lock writes the handler map of eventType
WritesHandlers(eventType) ==
    /\ bmu.w # None
    /\ wcall[bmu.w].op \in {"Subscribe", "Unsubscribe"}
    /\ wcall[bmu.w].ty = eventType

\* the goroutine holding eb.mu.Lock writes eb.middleware
WritesMiddleware == bmu.w # None /\ wcall[bmu.w].op = "AddMiddleware"

\* eb.mu.Lock() of Subscribe (line 67), unsubscribe (93) or AddMiddleware (132),
\* called by an idle goroutine or by a running handler
BusLock(t, call) ==
    /\ ~fatal
    /\ wcall[t] = NoCall
    /\ \/ frames[t].pc = "idle" /\ t \in Writers
       \/ /\ frames[t].pc = "handler"
          /\ call = UnsubscribeCall(handles[frames[t].g.sub])
    /\ call.op = "Subscribe" => Len(handles) < MaxConcSubs
    /\ call.op = "AddMiddleware" => Len(middleware) < MaxMw
    /\ bmu.w = None /\ bmu.r = {}
    /\ bmu' = [bmu EXCEPT !.w = t]
    /\ wcall' = [wcall EXCEPT ![t] = call]
    /\ frames' = [frames EXCEPT ![t].pc = IF @ = "idle" THEN "call" ELSE @]
    /\ UNCHANGED <<busVars, consumeLog, unsubbed, fatal>>

\* the body of the call and its deferred eb.mu.Unlock(); the call returns
BusUnlock(t) ==
    /\ ~fatal
    /\ bmu.w = t
    /\ LET c == wcall[t]
       IN /\ CASE c.op = "Subscribe" -> Subscribe(c.ty, c.handler)
               [] c.op = "Unsubscribe" -> Unsubscribe(handles[c.id])
               [] c.op = "AddMiddleware" -> AddMiddleware(c.mw)
          /\ unsubbed' = IF c.op = "Unsubscribe" THEN unsubbed \cup {c.id} ELSE unsubbed
    /\ bmu' = [bmu EXCEPT !.w = None]
    /\ wcall' = [wcall EXCEPT ![t] = NoCall]
    /\ frames' = [frames EXCEPT ![t].pc = IF @ = "call" THEN "idle" ELSE "return"]
    /\ UNCHANGED <<consumeLog, fatal>>

\* Publish is called, line 348; `range eb.middleware` of line 350 reads the
\* slice once, without the lock.  Read while AddMiddleware writes it, the
\* slice header can be torn and the process stops.
PublishStart(t, event) ==
    /\ ~fatal
    /\ frames[t].pc = "idle"
    /\ Len(published) < MaxPubs
    /\ published' = Append(published, event)
    /\ \/ /\ frames' = [frames EXCEPT ![t] = [IdleFrame EXCEPT !.pc = "middleware",
                                               !.pub = Len(published) + 1,
                                               !.chain = middleware, !.i = 1,
                                               !.known = Len(handles), !.gone = unsubbed,
                                               !.event = event]]
          /\ UNCHANGED fatal
       \/ /\ WritesMiddleware
          /\ fatal' = TRUE
          /\ UNCHANGED frames
    /\ UNCHANGED <<subscribers, middleware, handles, consumed, inflight, handled,
                   bmu, wcall, consumeLog, unsubbed>>

\* one iteration of the loop of lines 350-352
PublishMiddleware(t) ==
    /\ ~fatal
    /\ frames[t].pc = "middleware"
    /\ frames[t].i <= Len(frames[t].chain)
    /\ frames' = [frames EXCEPT ![t].event = ApplyMiddleware(frames[t].chain[frames[t].i], @),
                                ![t].i = @ + 1]
    /\ UNCHANGED <<busVars, bmu, wcall, consumeLog, unsubbed, fatal>>

\* a Publish that puts its event in front of the ones already consumed
PublishConsume_Prepends(t, err) ==
    /\ ~fatal
    /\ frames[t].pc = "middleware"
    /\ frames[t].i > Len(frames[t].chain)
    /\ consumeLog' = <<[pub |-> frames[t].pub, by |-> t,
                        event |-> frames[t].event, err |-> err]>> \o consumeLog
    /\ frames' = [frames EXCEPT ![t].pc = "rlock"]
    /\ UNCHANGED <<busVars, bmu, wcall, unsubbed, fatal>>

\* a Publish that returns when the consumer fails
PublishConsume_ErrReturns(t, err) ==
    /\ ~fatal
    /\ frames[t].pc = "middleware"
    /\ frames[t].i > Len(frames[t].chain)
    /\ consumeLog' = Append(consumeLog, [pub |-> frames[t].pub, by |-> t,
                                         event |-> frames[t].event, err |-> err])
    /\ frames' = [frames EXCEPT ![t] = IF err THEN IdleFrame ELSE [@ EXCEPT !.pc = "rlock"]]
    /\ UNCHANGED <<busVars, bmu, wcall, unsubbed, fatal>>

\* eb.consumer.Consume, lines 355-357: an error is logged
PublishConsume(t, err) ==
    /\ ~fatal
    /\ frames[t].pc = "middleware"
    /\ frames[t].i > Len(frames[t].chain)
    /\ consumeLog' = Append(consumeLog, [pub |-> frames[t].pub, by |-> t,
                                         event |-> frames[t].event, err |-> err])
    /\ frames' = [frames EXCEPT ![t].pc = "rlock"]
    /\ UNCHANGED <<busVars, bmu, wcall, unsubbed, fatal>>

\* eb.mu.RLock() and the map lookup, lines 360-361: handlers is the map
\* itself, not a copy; snap is what it holds at this moment
PublishRLock(t) ==
    /\ ~fatal
    /\ frames[t].pc = "rlock"
    /\ bmu.w = None
    /\ bmu' = [bmu EXCEPT !.r = @ \cup {t}]
    /\ frames' = [frames EXCEPT ![t].pc = "runlock",
                                ![t].snap = DOMAIN subscribers[frames[t].event.Type]]
    /\ UNCHANGED <<busVars, wcall, consumeLog, unsubbed, fatal>>

\* eb.mu.RUnlock(), line 362
PublishRUnlock(t) ==
    /\ ~fatal
    /\ frames[t].pc = "runlock"
    /\ bmu' = [bmu EXCEPT !.r = @ \ {t}]
    /\ frames' = [frames EXCEPT ![t].pc = "range"]
    /\ UNCHANGED <<busVars, wcall, consumeLog, unsubbed, fatal>>

\* the map iteration meets a write of the same map in progress: the runtime
\* may stop the process (concurrent map iteration and map write)
RangeRaces(t) ==
    /\ WritesHandlers(frames[t].event.Type)
    /\ DOMAIN subscribers[frames[t].event.Type] # {}

\* one iteration of `for id, handler := range handlers`, lines 364-372, over
\* the map as it is now: an entry removed before it is reached is not
\* produced, an entry added during the loop may be produced
PublishRange(t, id) ==
    /\ ~fatal
    /\ frames[t].pc = "range"
    /\ id \in (DOMAIN subscribers[frames[t].event.Type]) \ frames[t].visited
    /\ \/ /\ inflight' = inflight (+) SetToBag({[sub |-> id,
                                 handler |-> subscribers[frames[t].event.Type][id],
                                 pub |-> frames[t].pub, event |-> frames[t].event]})
          /\ frames' = [frames EXCEPT ![t].visited = @ \cup {id}]
          /\ UNCHANGED fatal
       \/ /\ RangeRaces(t)
          /\ fatal' = TRUE
          /\ UNCHANGED <<inflight, frames>>
    /\ UNCHANGED <<subscribers, middleware, handles, published, consumed, handled,
                   bmu, wcall, consumeLog, unsubbed>>

\* the loop ends when every entry the map held at its start and still holds
\* has been produced; Publish returns, line 373
PublishReturn(t) ==
    /\ ~fatal
    /\ frames[t].pc = "range"
    /\ (frames[t].snap \cap DOMAIN subscribers[frames[t].event.Type]) \subseteq frames[t].visited
    /\ \/ /\ frames' = [frames EXCEPT ![t] = IdleFrame]
          /\ UNCHANGED fatal
       \/ /\ RangeRaces(t)
          /\ fatal' = TRUE
          /\ UNCHANGED frames
    /\ UNCHANGED <<busVars, bmu, wcall, consumeLog, unsubbed>>

\* a goroutine of lines 365-371 starts a handler that calls the bus
RunHandler(t, g) ==
    /\ ~fatal
    /\ BagIn(g, inflight)
    /\ g.handler = "hOnce"
    /\ frames[t].pc = "idle"
    /\ inflight' = inflight (-) SetToBag({g})
    /\ frames' = [frames EXCEPT ![t] = [IdleFrame EXCEPT !.pc = "handler", !.g = g]]
    /\ UNCHANGED <<subscribers, middleware, handles, published, consumed, handled,
                   bmu, wcall, consumeLog, unsubbed, fatal>>

\* that handler returns nil
HandlerReturn(t) ==
    /\ ~fatal
    /\ frames[t].pc = "return"
    /\ handled' = handled (+) SetToBag({[sub |-> frames[t].g.sub,
                                          handler |-> frames[t].g.handler,
                                          pub |-> frames[t].g.pub,
                                          event |-> frames[t].g.event, err |-> FALSE]})
    /\ frames' = [frames EXCEPT ![t] = IdleFrame]
    /\ UNCHANGED <<subscribers, middleware, handles, published, consumed, inflight,
                   bmu, wcall, consumeLog, unsubbed, fatal>>

\* a goroutine of lines 365-371 runs a handler that does not call the bus
DeliverPlain(g) ==
    /\ ~fatal
    /\ g.handler # "hOnce"
    /\ Deliver(g)
    /\ UNCHANGED pubVars

PubNext ==
    \/ \E t \in Writers, ty \in PubTypes, h \in CallerHandlers :
         BusLock(t, SubscribeCall(ty, h)) /\ UNCHANGED outsidePub
    \/ \E t \in Writers \cup HandlerThreads, i \in 1..Len(handles) :
         BusLock(t, UnsubscribeCall(handles[i])) /\ UNCHANGED outsidePub
    \/ \E t \in Writers, mw \in PubMiddlewares :
         BusLock(t, AddMiddlewareCall(mw)) /\ UNCHANGED outsidePub
    \/ \E t \in Writers \cup HandlerThreads : BusUnlock(t) /\ UNCHANGED outsidePub
    \/ \E t \in Publishers, e \in {x \in PubEvents : x.Type \in PubTypes} :
         PublishStart(t, e) /\ UNCHANGED outsidePub
    \/ \E t \in Publishers : PublishMiddleware(t) /\ UNCHANGED outsidePub
    \/ \E t \in Publishers, err \in BOOLEAN : PublishConsume(t, err) /\ UNCHANGED outsidePub
    \/ \E t \in Publishers : PublishRLock(t) /\ UNCHANGED outsidePub
    \/ \E t \in Publishers : PublishRUnlock(t) /\ UNCHANGED outsidePub
    \/ \E t \in Publishers, id \in 1..Len(handles) : PublishRange(t, id) /\ UNCHANGED outsidePub
    \/ \E t \in Publishers : PublishReturn(t) /\ UNCHANGED outsidePub
    \/ \E t \in HandlerThreads, g \in BagToSet(inflight) : RunHandler(t, g) /\ UNCHANGED outsidePub
    \/ \E t \in HandlerThreads : HandlerReturn(t) /\ UNCHANGED outsidePub
    \/ \E g \in BagToSet(inflight) : DeliverPlain(g) /\ UNCHANGED outsidePub

PubSpec == BusOnlyInit /\ [][PubNext]_vars

\* ------------------------------------------- channel subscribers and streams
\* the channel bus: Subscribe, part_003 lines 291-298 (part_002 lines 103-110)
ChanSubscribe(eventType) ==
    /\ Len(chans) < MaxChans
    /\ chans' = Append(chans, [Type |-> eventType, buf |-> <<>>])
    /\ UNCHANGED <<emitted, got, full, streamBuf, stream, closedAt>>

\* the select of part_003 lines 305-309 on one channel: send, or skip when full
TrySend(ch, event, p) ==
    IF ch.Type = event.Type /\ Len(ch.buf) < ChanCap
    THEN [ch EXCEPT !.buf = Append(@, p)]
    ELSE ch

\* Publish, part_003 lines 300-311, and Emit, part_002 lines 112-123
ChanPublish(event) ==
    /\ Len(emitted) < MaxPubs
    /\ LET p == Len(emitted) + 1
       IN /\ emitted' = Append(emitted, event)
          /\ chans' = [i \in 1..Len(chans) |-> TrySend(chans[i], event, p)]
          /\ full' = full \cup {<<"chan", i, p>> : i \in {j \in 1..Len(chans) :
                                       /\ chans[j].Type = event.Type
                                       /\ Len(chans[j].buf) >= ChanCap}}
    /\ UNCHANGED <<got, streamBuf, stream, closedAt>>

\* the subscriber reads its channel
ChanReceive(i) ==
    /\ chans[i].buf # <<>>
    /\ got' = got \cup {<<"chan", i, Head(chans[i].buf)>>}
    /\ chans' = [chans EXCEPT ![i].buf = Tail(@)]
    /\ UNCHANGED <<emitted, full, streamBuf, stream, closedAt>>

\* NewEventStream, event.go lines 144-175: one subscription per requested type
\* whose handler sends to the stream
NewEventStream(types) ==
    /\ stream = None
    /\ stream' = "open"
    /\ subscribers' = [ty \in EventTypes |->
                         IF \E k \in 1..Len(types) : types[k] = ty
                         THEN Put(subscribers[ty],
                                  Len(handles) + (CHOOSE k \in 1..Len(types) : types[k] = ty),
                                  "hStream")
                         ELSE subscribers[ty]]
    /\ handles' = handles \o [k \in 1..Len(types) |->
                                [ID |-> Len(handles) + k, Type |-> types[k],
                                 Handler |-> "hStream"]]
    /\ UNCHANGED <<middleware, published, consumed, inflight, handled,
                   chans, emitted, got, full, streamBuf, closedAt>>

\* the handler of lines 152-161 in goroutine g finds the buffer full: none of
\* the cases of its select can proceed and it has no default, so it waits
StreamBlock(g) ==
    /\ BagIn(g, inflight)
    /\ stream = "open"
    /\ Len(streamBuf) >= ChanCap
    /\ <<"stream", g.sub, g.pub>> \notin full
    /\ full' = full \cup {<<"stream", g.sub, g.pub>>}
    /\ UNCHANGED <<busVars, chans, emitted, got, streamBuf, stream, closedAt>>

\* case stream.events <- e, line 154: the handler returns nil
StreamSend(g) ==
    /\ BagIn(g, inflight)
    /\ Len(streamBuf) < ChanCap
    /\ streamBuf' = Append(streamBuf, <<g.sub, g.pub>>)
    /\ inflight' = inflight (-) SetToBag({g})
    /\ handled' = handled (+) SetToBag({[sub |-> g.sub, handler |-> g.handler, pub |-> g.pub,
                                          event |-> g.event, err |-> FALSE]})
    /\ UNCHANGED <<subscribers, middleware, handles, published, consumed,
                   chans, emitted, got, full, stream, closedAt>>

\* case <-stream.done, line 158: the handler returns an error
StreamAbort(g) ==
    /\ BagIn(g, inflight)
    /\ stream = "closed"
    /\ inflight' = inflight (-) SetToBag({g})
    /\ handled' = handled (+) SetToBag({[sub |-> g.sub, handler |-> g.handler, pub |-> g.pub,
                                          event |-> g.event, err |-> TRUE]})
    /\ UNCHANGED <<subscribers, middleware, handles, published, consumed, chanVars>>

\* the reader of Events(), lines 178-180, takes an event
StreamReceive ==
    /\ streamBuf # <<>>
    /\ got' = got \cup {<<"stream", Head(streamBuf)[1], Head(streamBuf)[2]>>}
    /\ streamBuf' = Tail(streamBuf)
    /\ UNCHANGED <<busVars, chans, emitted, full, stream, closedAt>>

\* Close, lines 183-185
StreamClose ==
    /\ stream = "open"
    /\ stream' = "closed"
    /\ closedAt' = Len(published)
    /\ UNCHANGED <<busVars, chans, emitted, got, full, streamBuf>>

\* a goroutine of lines 164-171 unsubscribes after Close
StreamCleanup(sub) ==
    /\ stream = "closed"
    /\ sub.Handler = "hStream"
    /\ sub.ID \in DOMAIN subscribers[sub.Type]
    /\ Unsubscribe(sub)
    /\ UNCHANGED chanVars

\* the lists of types a stream is requested for
StreamTypes == {<<"workflow">>, <<"workflow", "secret">>}

DropNext ==
    \/ \E ty \in EventTypes : ChanSubscribe(ty) /\ UNCHANGED <<busVars, outsideChan>>
    \/ \E e \in PubEvents : ChanPublish(e) /\ UNCHANGED <<busVars, outsideChan>>
    \/ \E i \in 1..Len(chans) : ChanReceive(i) /\ UNCHANGED <<busVars, outsideChan>>
    \/ \E types \in StreamTypes : NewEventStream(types) /\ UNCHANGED outsideChan
    \/ \E e \in PubEvents : Publish(e) /\ UNCHANGED <<chanVars, outsideChan>>
    \/ \E g \in BagToSet(inflight) : StreamBlock(g) /\ UNCHANGED outsideChan
    \/ \E g \in BagToSet(inflight) : StreamSend(g) /\ UNCHANGED outsideChan
    \/ \E g \in BagToSet(inflight) : StreamAbort(g) /\ UNCHANGED outsideChan
    \/ StreamReceive /\ UNCHANGED outsideChan
    \/ StreamClose /\ UNCHANGED outsideChan
    \/ \E i \in 1..Len(handles) : StreamCleanup(handles[i]) /\ UNCHANGED outsideChan

DropSpec == BusOnlyInit /\ [][DropNext]_vars

\* ------------------------------------------- the batching remote consumer
\* Start, event.go lines 258-260
Start ==
    /\ proc = "new"
    /\ proc' = "running"
    /\ UNCHANGED <<queue, batch, sent, consumeRet, procCtxDone, recTick>>

\* a Consume that queues the event although the channel is full
Consume_QueuesWhenFull(ctxDone, case) ==
    /\ Len(consumeRet) < MaxOffers
    /\ LET event == Len(consumeRet) + 1
           room == Len(queue) < QueueCap
       IN /\ \/ case = "send" /\ room
             \/ case = "ctx" /\ ctxDone
             \/ case = "default" /\ ~room /\ ~ctxDone
          /\ queue' = IF case \in {"send", "default"} THEN Append(queue, event) ELSE queue
          /\ consumeRet' = Append(consumeRet,
                                  [ctxDone |-> ctxDone, room |-> room,
                                   err |-> CASE case = "send" -> Nil
                                             [] case = "ctx" -> "ctx.Err()"
                                             [] case = "default" -> "event channel full"])
    /\ UNCHANGED <<batch, sent, proc, procCtxDone, recTick>>

\* Consume, lines 262-273, called with the next event and a ctx that is done or
\* not: the select takes one of the cases that can proceed, the default only
\* when none can
Consume(ctxDone, case) ==
    /\ Len(consumeRet) < MaxOffers
    /\ LET event == Len(consumeRet) + 1
           room == Len(queue) < QueueCap
       IN /\ \/ case = "send" /\ room
             \/ case = "ctx" /\ ctxDone
             \/ case = "default" /\ ~room /\ ~ctxDone
          /\ queue' = IF case = "send" THEN Append(queue, event) ELSE queue
          /\ consumeRet' = Append(consumeRet,
                                  [ctxDone |-> ctxDone, room |-> room,
                                   err |-> CASE case = "send" -> Nil
                                             [] case = "ctx" -> "ctx.Err()"
                                             [] case = "default" -> "event channel full"])
    /\ UNCHANGED <<batch, sent, proc, procCtxDone, recTick>>

\* sendBatch, lines 299-305: SendEvents succeeds or fails; a failure is logged
sendBatch(b, ok) == Append(sent, [events |-> b, ok |-> ok])

\* a receive that keeps the batch after sending it
ProcessEvent_NoReset(ok) ==
    /\ proc = "running"
    /\ queue # <<>>
    /\ queue' = Tail(queue)
    /\ batch' = Append(batch, Head(queue))
    /\ sent' = IF Len(batch') >= BatchSize THEN sendBatch(batch', ok) ELSE sent
    /\ UNCHANGED <<consumeRet, proc, procCtxDone, recTick>>

\* processEvents, case event := <-rec.events, lines 284-289
ProcessEvent(ok) ==
    /\ proc = "running"
    /\ queue # <<>>
    /\ queue' = Tail(queue)
    /\ LET b == Append(batch, Head(queue))
       IN IF Len(b) >= BatchSize
          THEN sent' = sendBatch(b, ok) /\ batch' = <<>>
          ELSE sent' = sent /\ batch' = b
    /\ UNCHANGED <<consumeRet, proc, procCtxDone, recTick>>

\* processEvents, case <-ticker.C, lines 290-294
ProcessTick(ok) ==
    /\ proc = "running"
    /\ recTick
    /\ recTick' = FALSE
    /\ IF Len(batch) > 0
       THEN sent' = sendBatch(batch, ok) /\ batch' = <<>>
       ELSE UNCHANGED <<sent, batch>>
    /\ UNCHANGED <<queue, consumeRet, proc, procCtxDone>>

\* processEvents, case <-ctx.Done(), lines 282-283
ProcessDone ==
    /\ proc = "running"
    /\ procCtxDone
    /\ proc' = "returned"
    /\ UNCHANGED <<queue, batch, sent, consumeRet, procCtxDone, recTick>>

\* the one-second ticker of line 277 fires; a tick not yet taken is not doubled
TickerFires ==
    /\ proc = "running"
    /\ ~recTick
    /\ recTick' = TRUE
    /\ UNCHANGED <<queue, batch, sent, consumeRet, proc, procCtxDone>>

\* the ctx passed to Start is cancelled
Cancel ==
    /\ ~procCtxDone
    /\ procCtxDone' = TRUE
    /\ UNCHANGED <<queue, batch, sent, consumeRet, proc, recTick>>

RecNext ==
    \/ Start /\ UNCHANGED outsideRec
    \/ \E d \in BOOLEAN, c \in {"send", "ctx", "default"} : Consume(d, c) /\ UNCHANGED outsideRec
    \/ \E ok \in BOOLEAN : ProcessEvent(ok) /\ UNCHANGED outsideRec
    \/ \E ok \in BOOLEAN : ProcessTick(ok) /\ UNCHANGED outsideRec
    \/ ProcessDone /\ UNCHANGED outsideRec
    \/ TickerFires /\ UNCHANGED outsideRec
    \/ Cancel /\ UNCHANGED outsideRec

RecSpec == BusOnlyInit /\ [][RecNext]_vars

\* ===================================================================
\* The Manager (part_003 lines 497-767) and the caching manager (lines 330-394)
\* ===================================================================
\* A string is a sequence of pieces, each piece a run of characters; "" is <<>>.
HasPrefix(s, prefix) == Len(s) >= Len(prefix) /\ SubSeq(s, 1, Len(prefix)) = prefix

HasSuffix(s, suffix) ==
    Len(s) >= Len(suffix) /\ SubSeq(s, Len(s) - Len(suffix) + 1, Len(s)) = suffix

\* the pieces made only of characters of the class [a-zA-Z0-9-_]
NameChars == {"r", "q", "o", "ci", "S", "-"}

\* the rule of the "repository" field, validator.go lines 29-39: nil or an error
RepositoryRule(name) ==
    /\ name # <<>>
    /\ \A i \in 1..Len(name) : name[i] \in NameChars

\* Validator.ValidateWorkflowArgs / ValidateSecretArgs / ValidateNodePropArgs:
\* the repository identifier matches the rule and the required name is set
ValidateWorkflowArgs(args) == RepositoryRule(args.Repository) /\ args.Name # <<>>

ValidateSecretArgs(args) == RepositoryRule(args.Repository) /\ args.Name # <<>>

ValidateNodePropArgs(args) == RepositoryRule(args.RepoName)

\* Validator.ValidateNodeProp: the required fields of a descriptor are set
ValidateNodeProp(nodeProp) ==
    /\ nodeProp.ID # <<>>
    /\ nodeProp.Name # <<>>
    /\ nodeProp.Address # <<>>
    /\ nodeProp.Status # <<>>

\* the path with the directory and the suffix always added
WorkflowPath_AlwaysAdds(path) == <<".github/workflows/">> \o path \o <<".yml">>

\* GitHubOperations.AddWorkflow, github_ops.go lines 81-86: the path written
WorkflowPath(path) ==
    LET p1 == IF ~HasPrefix(path, <<".github/workflows/">>)
              THEN <<".github/workflows/">> \o path ELSE path
    IN IF ~HasSuffix(p1, <<".yml">>) /\ ~HasSuffix(p1, <<".yaml">>)
       THEN p1 \o <<".yml">> ELSE p1

\* the cache and store keys the Manager builds with fmt.Sprintf
WorkflowsKey(repo) == <<"workflows:">> \o repo
SecretsKey(repo) == <<"secrets:">> \o repo
NodePropKey(path) == <<"nodeprop:">> \o path
SecretRefKey(repo, name) == <<"secret_refs:">> \o repo \o <<":">> \o name
\* LocalEventConsumer.Consume, event.go line 324
EventKey(event) == <<"events:", event.Type, ":">> \o event.ID

\* a consumer that stores events of every type
shouldStore_All(event) == TRUE

\* shouldStore, event.go lines 376-383
shouldStore(event) == event.Type \in {"nodeprop", "workflow", "secret"}

\* an ID generator that hands out one ID to every caller
Uuid_Same(n) == <<"uuid-", "0">>

\* uuid.New().String(): the n-th identifier generated
Uuid(n) == <<"uuid-", ToString(n)>>

\* 1*time.Hour in the time unit of the model
OneHour == 3600

\* the buffer of the signal channel and of the action channel,
\* make(chan os.Signal, 1) and make(chan string, 1)
SigCap == 1

\* the NodePropFile literal of GenerateNodeProp, part_003 lines 699-711
NodePropFile(id, name, domain, t) ==
    [ID |-> id, Name |-> name,
     Address |-> <<"https://github.com/Cdaprod/">> \o name,
     Status |-> <<"active">>, LastUpdated |-> <<ToString(t)>>,
     Owner |-> <<"Cdaprod">>, Domain |-> domain]

NoNodeProp ==
    [ID |-> <<>>, Name |-> <<>>, Address |-> <<>>, Status |-> <<>>,
     LastUpdated |-> <<>>, Owner |-> <<>>, Domain |-> <<>>]

\* yaml.Marshal of a NodePropFile (types.go lines 5-13): the keys in field order
Marshal(nodeProp) ==
    << <<"id", nodeProp.ID>>, <<"name", nodeProp.Name>>,
       <<"address", nodeProp.Address>>, <<"status", nodeProp.Status>>,
       <<"metadata.owner", nodeProp.Owner>>,
       <<"metadata.last_updated", nodeProp.LastUpdated>>,
       <<"custom_properties.domain", nodeProp.Domain>> >>

\* the value of a key in a YAML document, "" when the key is absent
Field(data, key) ==
    IF \E i \in 1..Len(data) : data[i][1] = key
    THEN data[CHOOSE i \in 1..Len(data) : data[i][1] = key][2]
    ELSE <<>>

\* yaml.Unmarshal into a NodePropFile
Unmarshal(data) ==
    [ID |-> Field(data, "id"), Name |-> Field(data, "name"),
     Address |-> Field(data, "address"), Status |-> Field(data, "status"),
     LastUpdated |-> Field(data, "metadata.last_updated"),
     Owner |-> Field(data, "metadata.owner"),
     Domain |-> Field(data, "custom_properties.domain")]

\* ------------------------------------------------------------------ inputs
\* WorkflowArguments: valid ones (a name without a suffix, one with the .yml
\* suffix, one that is already a path under .github/workflows/, one with a
\* template) and ones that fail validation
WorkflowArgs ==
    {[Repository |-> <<"r">>, Name |-> <<"ci">>, Content |-> <<"c1">>, Template |-> <<>>],
     [Repository |-> <<"r">>, Name |-> <<"ci", ".yml">>, Content |-> <<"c1">>,
      Template |-> <<>>],
     [Repository |-> <<"r">>, Name |-> <<".github/workflows/", "ci", ".yaml">>,
      Content |-> <<"c1">>, Template |-> <<>>],
     [Repository |-> <<"q">>, Name |-> <<"ci">>, Content |-> <<>>, Template |-> <<"t">>],
     [Repository |-> <<>>, Name |-> <<"ci">>, Content |-> <<"c1">>, Template |-> <<>>],
     [Repository |-> <<"o", "/", "r">>, Name |-> <<"ci">>, Content |-> <<"c1">>,
      Template |-> <<>>]}

SecretArgs ==
    {[Repository |-> <<"r">>, Name |-> <<"S">>, Value |-> <<"v">>,
      Visibility |-> <<"private">>],
     [Repository |-> <<>>, Name |-> <<"S">>, Value |-> <<"v">>,
      Visibility |-> <<"private">>]}

NodePropArgs ==
    {[RepoPath |-> <<"p">>, RepoName |-> <<"r">>, Domain |-> <<"d1">>],
     [RepoPath |-> <<"p">>, RepoName |-> <<"r">>, Domain |-> <<"d2">>],
     [RepoPath |-> <<"p">>, RepoName |-> <<>>, Domain |-> <<"d1">>]}

\* the NodePropArguments of the caching manager
CachedArgs == {[RepoPath |-> <<"p">>, Workflow |-> <<"ci">>, Domain |-> <<"d1">>]}

\* entries other callers of the cache have left in it
StaleEntries ==
    {<<WorkflowsKey(<<"r">>), [Workflows |-> <<>>]>>,
     <<SecretsKey(<<"r">>), [Secrets |-> <<>>]>>,
     <<NodePropKey(<<"p">>), NodePropFile(<<"old">>, <<"r">>, <<"d0">>, 0)>>}

\* the event types a caller subscribes to
MgrSubTypes == {"workflow", "secret", "nodeprop"}

\* a call of a Manager operation: its arguments, whether its ctx is already
\* done, where it stands, what it returned (err = "" is nil), and what the
\* cache held under its key when it was called
Op(op, args, ctxDone, key) ==
    [op |-> op, args |-> args, ctxDone |-> ctxDone, pc |-> "done", err |-> <<>>,
     content |-> <<>>, nodeProp |-> NoNodeProp, key |-> key,
     pre |-> IF key \in DOMAIN items THEN <<items[key]>> ELSE <<>>, ev |-> 0]

\* wrapping with fmt.Errorf("...: %w", err)
Wrap(context, cause) == <<context, ": ">> \o cause

\* ------------------------------------------------------ the event emitter
\* LocalEventConsumer.Consume, event.go lines 314-331: the event is stored
\* under its key when its type is one to store; a failed store.Set is logged
LocalConsume(event, storeOk) ==
    IF shouldStore(event) /\ storeOk THEN Put(store, EventKey(event), event) ELSE store

\* EventEmitter.Emit: the bus hands the event to its consumer (event.go lines
\* 355-357) and then to the subscriber channels (part_002 lines 112-123)
Emit(event, storeOk) ==
    /\ ChanPublish(event)
    /\ store' = LocalConsume(event, storeOk)

\* an entry another caller of the shared cache has stored (Cache.Set,
\* part_003 line 67), before the operations below are called
CachePrime(key, value) ==
    /\ ops = <<>>
    /\ key \notin DOMAIN items
    /\ ItemCount(items) < maxItems
    /\ Set(key, value, OneHour)
    /\ UNCHANGED <<chanVars, mgrVars>>

\* ------------------------------------------------------------- AddWorkflow
\* AddWorkflow without its validation step
AddWorkflowCall_NoValidation(args, ctxDone, tmplOk) ==
    /\ Len(ops) < MaxPubs
    /\ LET o == Op("AddWorkflow", args, ctxDone, WorkflowsKey(args.Repository))
       IN ops' = Append(ops,
            IF args.Template = <<>>
            THEN [o EXCEPT !.pc = "effect", !.content = args.Content]
            ELSE IF tmplOk
            THEN [o EXCEPT !.pc = "effect", !.content = <<"rendered:">> \o args.Template]
            ELSE [o EXCEPT !.err = Wrap("failed to process template",
                                        <<"template error">>)])
    /\ UNCHANGED <<cacheVars, chanVars, ghCalls, store, uuids, lru>>

\* lines 605-619: validation, then the template when one is named (tmplOk is
\* the outcome of ProcessTemplate)
AddWorkflowCall(args, ctxDone, tmplOk) ==
    /\ Len(ops) < MaxPubs
    /\ LET o == Op("AddWorkflow", args, ctxDone, WorkflowsKey(args.Repository))
       IN ops' = Append(ops,
            IF ~ValidateWorkflowArgs(args)
            THEN [o EXCEPT !.err = Wrap("invalid workflow arguments",
                                        <<"validation error">>)]
            ELSE IF args.Template = <<>>
            THEN [o EXCEPT !.pc = "effect", !.content = args.Content]
            ELSE IF tmplOk
            THEN [o EXCEPT !.pc = "effect", !.content = <<"rendered:">> \o args.Template]
            ELSE [o EXCEPT !.err = Wrap("failed to process template",
                                        <<"template error">>)])
    /\ UNCHANGED <<cacheVars, chanVars, ghCalls, store, uuids, lru>>

\* AddWorkflow that emits right after the effect, leaving the cache entry
CreateWorkflow_SkipsCache(c, ok) ==
    /\ ops[c].op = "AddWorkflow" /\ ops[c].pc = "effect"
    /\ ghCalls' = Append(ghCalls,
            [op |-> "CreateWorkflow", by |-> c, repo |-> ops[c].args.Repository,
             path |-> WorkflowPath(ops[c].args.Name), data |-> ops[c].content,
             ok |-> ok])
    /\ ops' = [ops EXCEPT ![c].pc = IF ok THEN "emit" ELSE "done",
                          ![c].err = IF ok THEN <<>>
                                     ELSE Wrap("failed to create workflow",
                                               <<"github error">>)]
    /\ UNCHANGED <<cacheVars, chanVars, store, uuids, lru>>

\* lines 621-624: the call of the GitHub client, ok its outcome
CreateWorkflow(c, ok) ==
    /\ ops[c].op = "AddWorkflow" /\ ops[c].pc = "effect"
    /\ ghCalls' = Append(ghCalls,
            [op |-> "CreateWorkflow", by |-> c, repo |-> ops[c].args.Repository,
             path |-> WorkflowPath(ops[c].args.Name), data |-> ops[c].content,
             ok |-> ok])
    /\ ops' = [ops EXCEPT ![c].pc = IF ok THEN "cache" ELSE "done",
                          ![c].err = IF ok THEN <<>>
                                     ELSE Wrap("failed to create workflow",
                                               <<"github error">>)]
    /\ UNCHANGED <<cacheVars, chanVars, store, uuids, lru>>

\* lines 626-628
InvalidateWorkflows(c) ==
    /\ ops[c].op = "AddWorkflow" /\ ops[c].pc = "cache"
    /\ Delete(ops[c].key)
    /\ ops' = [ops EXCEPT ![c].pc = "emit"]
    /\ UNCHANGED <<chanVars, ghCalls, store, uuids, lru>>

\* lines 630-642
EmitWorkflowAdded(c, storeOk) ==
    /\ ops[c].op = "AddWorkflow" /\ ops[c].pc = "emit"
    /\ Emit([ID |-> <<>>, Type |-> "workflow", Name |-> "WorkflowAdded",
             Data |-> [Name |-> ops[c].args.Name, Content |-> ops[c].content,
                       Updated |-> now, Status |-> <<"active">>]], storeOk)
    /\ ops' = [ops EXCEPT ![c].pc = "done", ![c].ev = Len(emitted) + 1]
    /\ UNCHANGED <<cacheVars, ghCalls, uuids, lru>>

\* --------------------------------------------------------------- AddSecret
\* lines 647-651
AddSecretCall(args, ctxDone) ==
    /\ Len(ops) < MaxPubs
    /\ LET o == Op("AddSecret", args, ctxDone, SecretsKey(args.Repository))
       IN ops' = Append(ops,
            IF ~ValidateSecretArgs(args)
            THEN [o EXCEPT !.err = Wrap("invalid secret arguments",
                                        <<"validation error">>)]
            ELSE [o EXCEPT !.pc = "effect"])
    /\ UNCHANGED <<cacheVars, chanVars, ghCalls, store, uuids, lru>>

\* lines 653-656
CreateSecret(c, ok) ==
    /\ ops[c].op = "AddSecret" /\ ops[c].pc = "effect"
    /\ ghCalls' = Append(ghCalls,
            [op |-> "CreateSecret", by |-> c, repo |-> ops[c].args.Repository,
             path |-> ops[c].args.Name, data |-> ops[c].args.Value, ok |-> ok])
    /\ ops' = [ops EXCEPT ![c].pc = IF ok THEN "cache" ELSE "done",
                          ![c].err = IF ok THEN <<>>
                                     ELSE Wrap("failed to create secret",
                                               <<"github error">>)]
    /\ UNCHANGED <<cacheVars, chanVars, store, uuids, lru>>

\* lines 658-673: the cache entry, then the local reference (a failed
\* store.Set is logged as a warning)
InvalidateSecrets(c, storeOk) ==
    /\ ops[c].op = "AddSecret" /\ ops[c].pc = "cache"
    /\ Delete(ops[c].key)
    /\ store' = IF storeOk
                THEN Put(store, SecretRefKey(ops[c].args.Repository, ops[c].args.Name),
                         [Name |-> ops[c].args.Name,
                          Repository |-> ops[c].args.Repository,
                          Created |-> now, Updated |-> now,
                          Visibility |-> ops[c].args.Visibility])
                ELSE store
    /\ ops' = [ops EXCEPT ![c].pc = "emit"]
    /\ UNCHANGED <<chanVars, ghCalls, uuids, lru>>

\* lines 675-687
EmitSecretAdded(c, storeOk) ==
    /\ ops[c].op = "AddSecret" /\ ops[c].pc = "emit"
    /\ Emit([ID |-> <<>>, Type |-> "secret", Name |-> "SecretAdded",
             Data |-> [Name |-> ops[c].args.Name, Created |-> now, Updated |-> now,
                       Visibility |-> ops[c].args.Visibility]], storeOk)
    /\ ops' = [ops EXCEPT ![c].pc = "done", ![c].ev = Len(emitted) + 1]
    /\ UNCHANGED <<cacheVars, ghCalls, uuids, lru>>

\* -------------------------------------------------------- GenerateNodeProp
\* lines 692-722: validation, the descriptor, its validation, yaml.Marshal
GenerateNodePropCall(args, ctxDone) ==
    /\ Len(ops) < MaxPubs
    /\ LET o == Op("GenerateNodeProp", args, ctxDone, NodePropKey(args.RepoPath))
           nodeProp == NodePropFile(Uuid(uuids + 1), args.RepoName, args.Domain, now)
       IN IF ~ValidateNodePropArgs(args)
          THEN /\ ops' = Append(ops, [o EXCEPT !.err = Wrap("invalid nodeprop arguments",
                                                             <<"validation error">>)])
               /\ UNCHANGED uuids
          ELSE /\ uuids' = uuids + 1
               /\ ops' = Append(ops,
                    IF ~ValidateNodeProp(nodeProp)
                    THEN [o EXCEPT !.err = Wrap("invalid nodeprop configuration",
                                                <<"validation error">>)]
                    ELSE [o EXCEPT !.pc = "effect", !.nodeProp = nodeProp])
    /\ UNCHANGED <<cacheVars, chanVars, ghCalls, store, lru>>

\* GenerateNodeProp with a dedupe step: the file is not written again while
\* the cache holds a descriptor of the repository
CreateFile_Deduped(c, ok) ==
    /\ ops[c].op = "GenerateNodeProp" /\ ops[c].pc = "effect"
    /\ IF ops[c].key \in DOMAIN items
       THEN /\ ops' = [ops EXCEPT ![c].pc = "done"]
            /\ UNCHANGED ghCalls
       ELSE /\ ghCalls' = Append(ghCalls,
                    [op |-> "CreateFile", by |-> c, repo |-> ops[c].args.RepoPath,
                     path |-> <<".nodeprop.yml">>, data |-> Marshal(ops[c].nodeProp),
                     ok |-> ok])
            /\ ops' = [ops EXCEPT ![c].pc = IF ok THEN "cache" ELSE "done",
                                  ![c].err = IF ok THEN <<>>
                                             ELSE Wrap("failed to create nodeprop file",
                                                       <<"github error">>)]
    /\ UNCHANGED <<cacheVars, chanVars, store, uuids, lru>>

\* lines 724-727
CreateFile(c, ok) ==
    /\ ops[c].op = "GenerateNodeProp" /\ ops[c].pc = "effect"
    /\ ghCalls' = Append(ghCalls,
            [op |-> "CreateFile", by |-> c, repo |-> ops[c].args.RepoPath,
             path |-> <<".nodeprop.yml">>, data |-> Marshal(ops[c].nodeProp),
             ok |-> ok])
    /\ ops' = [ops EXCEPT ![c].pc = IF ok THEN "cache" ELSE "done",
                          ![c].err = IF ok THEN <<>>
                                     ELSE Wrap("failed to create nodeprop file",
                                               <<"github error">>)]
    /\ UNCHANGED <<cacheVars, chanVars, store, uuids, lru>>

\* lines 729-731
CacheNodeProp(c) ==
    /\ ops[c].op = "GenerateNodeProp" /\ ops[c].pc = "cache"
    /\ Set(ops[c].key, ops[c].nodeProp, OneHour)
    /\ ops' = [ops EXCEPT ![c].pc = "emit"]
    /\ UNCHANGED <<chanVars, ghCalls, store, uuids, lru>>

\* lines 733-740
EmitNodePropGenerated(c, storeOk) ==
    /\ ops[c].op = "GenerateNodeProp" /\ ops[c].pc = "emit"
    /\ Emit([ID |-> <<>>, Type |-> "nodeprop", Name |-> "NodePropGenerated",
             Data |-> ops[c].nodeProp], storeOk)
    /\ ops' = [ops EXCEPT ![c].pc = "done", ![c].ev = Len(emitted) + 1]
    /\ UNCHANGED <<cacheVars, ghCalls, uuids, lru>>

\* ------------------------------------------------- the caching manager
\* filepath.Base: the last element of a path whose separator is the piece "/"
RECURSIVE TrimSlashes(_)
TrimSlashes(path) ==
    IF path # <<>> /\ path[Len(path)] = "/"
    THEN TrimSlashes(SubSeq(path, 1, Len(path) - 1))
    ELSE path

Base(path) ==
    IF path = <<>> THEN <<".">>
    ELSE LET p == TrimSlashes(path)
             slashes == {i \in 1..Len(p) : p[i] = "/"}
         IN IF p = <<>> THEN <<"/">>
            ELSE IF slashes = {} THEN p
            ELSE SubSeq(p, (CHOOSE i \in slashes : \A j \in slashes : j <= i) + 1, Len(p))

\* generateNodeProp, part_003 lines 396-411
generateNodeProp(args, id, t) ==
    [NodePropFile(id, Base(args.RepoPath), args.Domain, t) EXCEPT !.Owner = <<>>]

\* the option WithCache, part_003 lines 243-252, applied by CreateManager
WithCache ==
    /\ ops = <<>>
    /\ ~lru.on
    /\ lru' = [lru EXCEPT !.on = TRUE]
    /\ UNCHANGED <<cacheVars, chanVars, ops, ghCalls, store, uuids>>

\* AddWorkflow of the caching manager, lines 348-365: the ctx, then the cache
CachedAddWorkflowCall(args, ctxDone) ==
    /\ Len(ops) < MaxPubs
    /\ LET o == Op("CachedAddWorkflow", args, ctxDone, args.RepoPath)
       IN ops' = Append(ops,
            IF ctxDone
            THEN [o EXCEPT !.err = Wrap("context error", <<"context canceled">>)]
            ELSE IF lru.on /\ args.RepoPath \in DOMAIN lru.m
            THEN [o EXCEPT !.pc = "apply", !.nodeProp = lru.m[args.RepoPath]]
            ELSE [o EXCEPT !.pc = "process"])
    /\ UNCHANGED <<cacheVars, chanVars, ghCalls, store, uuids, lru>>

\* line 363: applyWorkflow, reached on a cache hit.  It performs the effect
\* from the cached descriptor and publishes the outcome, as every Manager
\* operation does; ok is the outcome of the effect
applyWorkflow(c, ok) ==
    /\ ops[c].op = "CachedAddWorkflow" /\ ops[c].pc = "apply"
    /\ ghCalls' = Append(ghCalls,
            [op |-> "applyWorkflow", by |-> c, repo |-> ops[c].args.RepoPath,
             path |-> ops[c].args.Workflow, data |-> Marshal(ops[c].nodeProp),
             ok |-> ok])
    /\ ChanPublish(IF ok
                   THEN [Type |-> "success",
                         Message |-> <<"Workflow added successfully to ">>
                                     \o ops[c].args.RepoPath]
                   ELSE [Type |-> "error",
                         Message |-> Wrap("Workflow processing failed",
                                          <<"processor error">>)])
    /\ ops' = [ops EXCEPT ![c].pc = "done", ![c].ev = Len(emitted) + 1,
                          ![c].err = IF ok THEN <<>>
                                     ELSE Wrap("workflow processing failed",
                                               <<"processor error">>)]
    /\ UNCHANGED <<cacheVars, store, uuids, lru>>

\* lines 367-380: the workflow processor, ok its outcome; a failure is
\* published as an error event; then generateNodeProp
Process(c, ok) ==
    /\ ops[c].op = "CachedAddWorkflow" /\ ops[c].pc = "process"
    /\ ghCalls' = Append(ghCalls,
            [op |-> "Process", by |-> c, repo |-> ops[c].args.RepoPath,
             path |-> ops[c].args.Workflow, data |-> <<>>, ok |-> ok])
    /\ IF ok
       THEN /\ uuids' = uuids + 1
            /\ ops' = [ops EXCEPT ![c].pc = "cache",
                          ![c].nodeProp = generateNodeProp(ops[c].args, Uuid(uuids + 1), now)]
            /\ UNCHANGED chanVars
       ELSE /\ ChanPublish([Type |-> "error",
                            Message |-> Wrap("Workflow processing failed",
                                             <<"processor error">>)])
            /\ ops' = [ops EXCEPT ![c].pc = "done", ![c].ev = Len(emitted) + 1,
                          ![c].err = Wrap("workflow processing failed",
                                          <<"processor error">>)]
            /\ UNCHANGED uuids
    /\ UNCHANGED <<cacheVars, store, lru>>

\* lines 382-385
CachedSet(c) ==
    /\ ops[c].op = "CachedAddWorkflow" /\ ops[c].pc = "cache"
    /\ lru' = IF lru.on
              THEN [lru EXCEPT !.m = Put(lru.m, ops[c].args.RepoPath, ops[c].nodeProp)]
              ELSE lru
    /\ ops' = [ops EXCEPT ![c].pc = "emit"]
    /\ UNCHANGED <<cacheVars, chanVars, ghCalls, store, uuids>>

\* lines 387-393
PublishSuccess(c) ==
    /\ ops[c].op = "CachedAddWorkflow" /\ ops[c].pc = "emit"
    /\ ChanPublish([Type |-> "success",
                    Message |-> <<"Workflow added successfully to ">>
                                \o ops[c].args.RepoPath])
    /\ ops' = [ops EXCEPT ![c].pc = "done", ![c].ev = Len(emitted) + 1]
    /\ UNCHANGED <<cacheVars, ghCalls, store, uuids, lru>>

\* ------------------------------------------------------------ the Manager
\* the ctx of a call: live for every argument value, already done for the
\* first valid one
CtxDone(a, valid) == {FALSE} \cup {d \in {TRUE} : a = CHOOSE v \in valid : TRUE}

ValidWorkflowArgs == {a \in WorkflowArgs : ValidateWorkflowArgs(a) /\ a.Template = <<>>}
ValidSecretArgs == {a \in SecretArgs : ValidateSecretArgs(a)}
ValidNodePropArgs == {a \in NodePropArgs : ValidateNodePropArgs(a)}

\* a caller subscribes before the operations are called
MgrSubscribe(ty) ==
    /\ ops = <<>>
    /\ Len(chans) < MaxMgrSubs
    /\ ChanSubscribe(ty)

MgrNext ==
    \/ \E e \in StaleEntries : CachePrime(e[1], e[2]) /\ UNCHANGED outsideMgr
    \/ \E ty \in MgrSubTypes : MgrSubscribe(ty) /\ UNCHANGED <<cacheVars, mgrVars, outsideMgr>>
    \/ \E i \in 1..Len(chans) : ChanReceive(i) /\ UNCHANGED <<cacheVars, mgrVars, outsideMgr>>
    \/ \E a \in WorkflowArgs, ok \in BOOLEAN : \E d \in CtxDone(a, ValidWorkflowArgs) :
          AddWorkflowCall(a, d, ok) /\ UNCHANGED outsideMgr
    \/ \E c \in 1..Len(ops), ok \in BOOLEAN : CreateWorkflow(c, ok) /\ UNCHANGED outsideMgr
    \/ \E c \in 1..Len(ops) : InvalidateWorkflows(c) /\ UNCHANGED outsideMgr
    \/ \E c \in 1..Len(ops), ok \in BOOLEAN : EmitWorkflowAdded(c, ok) /\ UNCHANGED outsideMgr
    \/ \E a \in SecretArgs : \E d \in CtxDone(a, ValidSecretArgs) :
          AddSecretCall(a, d) /\ UNCHANGED outsideMgr
    \/ \E c \in 1..Len(ops), ok \in BOOLEAN : CreateSecret(c, ok) /\ UNCHANGED outsideMgr
    \/ \E c \in 1..Len(ops), ok \in BOOLEAN : InvalidateSecrets(c, ok) /\ UNCHANGED outsideMgr
    \/ \E c \in 1..Len(ops), ok \in BOOLEAN : EmitSecretAdded(c, ok) /\ UNCHANGED outsideMgr
    \/ \E a \in NodePropArgs : \E d \in CtxDone(a, ValidNodePropArgs) :
          GenerateNodePropCall(a, d) /\ UNCHANGED outsideMgr
    \/ \E c \in 1..Len(ops), ok \in BOOLEAN : CreateFile(c, ok) /\ UNCHANGED outsideMgr
    \/ \E c \in 1..Len(ops) : CacheNodeProp(c) /\ UNCHANGED outsideMgr
    \/ \E c \in 1..Len(ops), ok \in BOOLEAN : EmitNodePropGenerated(c, ok) /\ UNCHANGED outsideMgr

MgrSpec == BusOnlyInit /\ [][MgrNext]_vars

\* the caching manager with its channel bus
CachedNext ==
    \/ WithCache /\ UNCHANGED outsideMgr
    \/ \E ty \in {"success", "error"} : ChanSubscribe(ty) /\ UNCHANGED <<cacheVars, mgrVars, outsideMgr>>
    \/ \E i \in 1..Len(chans) : ChanReceive(i) /\ UNCHANGED <<cacheVars, mgrVars, outsideMgr>>
    \/ \E a \in CachedArgs, d \in BOOLEAN : CachedAddWorkflowCall(a, d) /\ UNCHANGED outsideMgr
    \/ \E c \in 1..Len(ops), ok \in BOOLEAN : applyWorkflow(c, ok) /\ UNCHANGED outsideMgr
    \/ \E c \in 1..Len(ops), ok \in BOOLEAN : Process(c, ok) /\ UNCHANGED outsideMgr
    \/ \E c \in 1..Len(ops) : CachedSet(c) /\ UNCHANGED outsideMgr
    \/ \E c \in 1..Len(ops) : PublishSuccess(c) /\ UNCHANGED outsideMgr

CachedSpec == BusOnlyInit /\ [][CachedNext]_vars

\* ------------------------------------------------- the file-copy manager
\* filepath.Join of a directory and a relative path: one separator between
\* them, none after an empty directory
JoinPath(dir, rest) ==
    IF dir = <<>> THEN rest
    ELSE IF TrimSlashes(dir) = <<>> THEN <<"/">> \o rest
    ELSE TrimSlashes(dir) \o <<"/">> \o rest

\* part_003 line 840: the workflow file in the target repository
WorkflowFile(args) ==
    JoinPath(args.RepoPath, <<".github", "/", "workflows", "/">> \o args.Workflow \o <<".yml">>)

\* part_003 line 888
NodePropPath(args) == JoinPath(args.RepoPath, <<".nodeprop.yml">>)

\* the two files AddWorkflow reads from ./assets (lines 835, 860)
WorkflowAsset == <<"index-nodeprop-workflow.yml">>
TemplateAsset == <<".empty.nodeprop.yml">>

\* the workflow template of the test (part_000 lines 99-114)
IndexWorkflow == << <<"name", <<"TestWorkflow">>>> >>

\* .empty.nodeprop.yml as the test writes it (part_000 lines 48-93, every
\* value empty), one with status: active, and a file that is not YAML
EmptyTemplate == Marshal(NoNodeProp)
ActiveTemplate == Marshal([NoNodeProp EXCEPT !.Status = <<"active">>])
BadTemplate == << <<"?", <<>>>> >>

\* yaml.Unmarshal returns an error
YamlError(data) == \E i \in 1..Len(data) : data[i][1] = "?"

AssetFiles ==
    {<<WorkflowAsset, IndexWorkflow>>, <<TemplateAsset, EmptyTemplate>>,
     <<TemplateAsset, ActiveTemplate>>, <<TemplateAsset, BadTemplate>>}

\* the NodePropArguments of the file-copy manager: one repository, named with
\* and without a trailing separator
FileArgs ==
    {[RepoPath |-> <<"/", "tmp", "/", "repo">>, Workflow |-> <<"test-workflow">>,
      Domain |-> <<"test.domain">>],
     [RepoPath |-> <<"/", "tmp", "/", "repo", "/">>, Workflow |-> <<"ci">>,
      Domain |-> <<"d2">>]}

\* the caller puts a file into ./assets before AddWorkflow is called
WriteAsset(name, content) ==
    /\ ops = <<>>
    /\ name \notin DOMAIN assets
    /\ assets' = Put(assets, name, content)
    /\ UNCHANGED <<fs, ops, uuids>>

\* AddWorkflow, part_003 lines 828-838: the workflow template is read
FileAddWorkflowCall(args) ==
    /\ Len(ops) < MaxPubs
    /\ LET o == Op("FileAddWorkflow", args, FALSE, args.RepoPath)
       IN ops' = Append(ops,
            IF WorkflowAsset \in DOMAIN assets
            THEN [o EXCEPT !.pc = "mkdir", !.content = assets[WorkflowAsset]]
            ELSE [o EXCEPT !.err = <<"open ">> \o WorkflowAsset
                                              \o <<": no such file or directory">>])
    /\ UNCHANGED <<fs, assets, uuids>>

\* lines 840-845: os.MkdirAll, ok its outcome
MkdirAll(c, ok) ==
    /\ ops[c].op = "FileAddWorkflow" /\ ops[c].pc = "mkdir"
    /\ ops' = [ops EXCEPT ![c].pc = IF ok THEN "write" ELSE "done",
                          ![c].err = IF ok THEN <<>> ELSE <<"mkdir error">>]
    /\ UNCHANGED <<fs, assets, uuids>>

\* lines 847-851: ioutil.WriteFile of the workflow, ok its outcome
WriteWorkflow(c, ok) ==
    /\ ops[c].op = "FileAddWorkflow" /\ ops[c].pc = "write"
    /\ fs' = IF ok THEN Put(fs, WorkflowFile(ops[c].args), ops[c].content) ELSE fs
    /\ ops' = [ops EXCEPT ![c].pc = IF ok THEN "template" ELSE "done",
                          ![c].err = IF ok THEN <<>> ELSE <<"write error">>]
    /\ UNCHANGED <<assets, uuids>>

\* lines 855-885, after the sleep: the descriptor template is read and
\* unmarshalled, five of its fields are set, and it is marshalled again
ReadTemplate(c) ==
    /\ ops[c].op = "FileAddWorkflow" /\ ops[c].pc = "template"
    /\ IF TemplateAsset \notin DOMAIN assets
       THEN /\ ops' = [ops EXCEPT ![c].pc = "done",
                          ![c].err = <<"open ">> \o TemplateAsset
                                       \o <<": no such file or directory">>]
            /\ UNCHANGED uuids
       ELSE IF YamlError(assets[TemplateAsset])
       THEN /\ ops' = [ops EXCEPT ![c].pc = "done", ![c].err = <<"yaml error">>]
            /\ UNCHANGED uuids
       ELSE /\ uuids' = uuids + 1
            /\ ops' = [ops EXCEPT ![c].pc = "nodeprop",
                 ![c].nodeProp =
                     [Unmarshal(assets[TemplateAsset]) EXCEPT
                        !.ID = Uuid(uuids + 1),
                        !.Name = Base(ops[c].args.RepoPath),
                        !.Address = <<"https://github.com/Cdaprod/">>
                                      \o Base(ops[c].args.RepoPath),
                        !.LastUpdated = <<ToString(now)>>,
                        !.Domain = ops[c].args.Domain]]
    /\ UNCHANGED <<fs, assets>>

\* lines 887-901: ioutil.WriteFile of .nodeprop.yml, ok its outcome
WriteNodeProp(c, ok) ==
    /\ ops[c].op = "FileAddWorkflow" /\ ops[c].pc = "nodeprop"
    /\ fs' = IF ok THEN Put(fs, NodePropPath(ops[c].args), Marshal(ops[c].nodeProp)) ELSE fs
    /\ ops' = [ops EXCEPT ![c].pc = "done",
                          ![c].err = IF ok THEN <<>> ELSE <<"write error">>]
    /\ UNCHANGED <<assets, uuids>>

FileNext ==
    \/ \E f \in AssetFiles : WriteAsset(f[1], f[2]) /\ UNCHANGED outsideFile
    \/ \E a \in FileArgs : FileAddWorkflowCall(a) /\ UNCHANGED outsideFile
    \/ \E c \in 1..Len(ops), ok \in BOOLEAN : MkdirAll(c, ok) /\ UNCHANGED outsideFile
    \/ \E c \in 1..Len(ops), ok \in BOOLEAN : WriteWorkflow(c, ok) /\ UNCHANGED outsideFile
    \/ \E c \in 1..Len(ops) : ReadTemplate(c) /\ UNCHANGED outsideFile
    \/ \E c \in 1..Len(ops), ok \in BOOLEAN : WriteNodeProp(c, ok) /\ UNCHANGED outsideFile

FileSpec == BusOnlyInit /\ [][FileNext]_vars

\* ------------------------------------------------------ signal handling
\* the signals both handlers register for (main.go line 33, part_003 line 907)
Sigs == {"SIGHUP", "SIGINT", "SIGTERM"}
TermSigs == {"SIGINT", "SIGTERM"}

\* a termination signal has been sent to the process
TermSent == \E i \in 1..Len(signals) : signals[i] \in TermSigs

\* main.go lines 132-162: main starts ListenForSignal and the action loop
StartMain ==
    /\ impl = "none"
    /\ impl' = "main"
    /\ UNCHANGED <<signals, SignalCh, ActionCh, listener, reloads, shutdowns, exited>>

\* part_003 lines 905-907: the process runs NodePropManager.SignalHandler
StartManager ==
    /\ impl = "none"
    /\ impl' = "manager"
    /\ UNCHANGED <<signals, SignalCh, ActionCh, listener, reloads, shutdowns, exited>>

\* the environment sends SIGHUPs and then one SIGINT or SIGTERM.  signal.Notify
\* does not block: a signal that finds the channel full is dropped
Signal(s) ==
    /\ impl # "none" /\ ~exited
    /\ ~TermSent /\ Len(signals) < MaxSignals
    /\ signals' = Append(signals, s)
    /\ SignalCh' = IF Len(SignalCh) < SigCap THEN Append(SignalCh, s) ELSE SignalCh
    /\ UNCHANGED <<impl, ActionCh, listener, reloads, shutdowns, exited>>

\* main.go lines 34-38, 42: ListenForSignal takes a signal from SignalCh
ListenForSignal ==
    /\ impl = "main" /\ listener = "run" /\ SignalCh # <<>>
    /\ SignalCh' = Tail(SignalCh)
    /\ listener' = IF Head(SignalCh) \in TermSigs THEN "shutdown" ELSE "reload"
    /\ UNCHANGED <<impl, signals, ActionCh, reloads, shutdowns, exited>>

\* main.go lines 40-41, 44: the send on ActionCh, which blocks while the
\* buffer is full; ListenForSignal returns after "shutdown"
SendAction ==
    /\ impl = "main" /\ listener \in {"shutdown", "reload"}
    /\ Len(ActionCh) < SigCap
    /\ ActionCh' = Append(ActionCh, listener)
    /\ listener' = IF listener = "shutdown" THEN "returned" ELSE "run"
    /\ UNCHANGED <<impl, signals, SignalCh, reloads, shutdowns, exited>>

\* main.go lines 150-161 with handleArgsOrSignals, lines 68-77: the action
\* loop runs ReloadConfig, or the shutdown function that sleeps and prints
HandleAction ==
    /\ impl = "main" /\ ActionCh # <<>>
    /\ ActionCh' = Tail(ActionCh)
    /\ reloads' = IF Head(ActionCh) = "reload" THEN reloads + 1 ELSE reloads
    /\ shutdowns' = IF Head(ActionCh) = "shutdown" THEN shutdowns + 1 ELSE shutdowns
    /\ UNCHANGED <<impl, signals, SignalCh, listener, exited>>

\* part_003 lines 909-918: SignalHandler takes a signal; os.Exit(0) on
\* SIGINT and SIGTERM
SignalHandler ==
    /\ impl = "manager" /\ listener = "run" /\ SignalCh # <<>> /\ ~exited
    /\ SignalCh' = Tail(SignalCh)
    /\ listener' = IF Head(SignalCh) = "SIGHUP" THEN "reloading" ELSE listener
    /\ exited' = (Head(SignalCh) \in TermSigs)
    /\ UNCHANGED <<impl, signals, ActionCh, reloads, shutdowns>>

\* part_003 lines 913, 923-932: ReloadConfig, called by SignalHandler
ReloadConfig ==
    /\ impl = "manager" /\ listener = "reloading"
    /\ reloads' = reloads + 1
    /\ listener' = "run"
    /\ UNCHANGED <<impl, signals, SignalCh, ActionCh, shutdowns, exited>>

SigNext ==
    \/ StartMain /\ UNCHANGED outsideSig
    \/ StartManager /\ UNCHANGED outsideSig
    \/ \E s \in Sigs : Signal(s) /\ UNCHANGED outsideSig
    \/ ListenForSignal /\ UNCHANGED outsideSig
    \/ SendAction /\ UNCHANGED outsideSig
    \/ HandleAction /\ UNCHANGED outsideSig
    \/ SignalHandler /\ UNCHANGED outsideSig
    \/ ReloadConfig /\ UNCHANGED outsideSig

SigSpec == BusOnlyInit /\ [][SigNext]_vars

\* ------------------------------------------------- the local consumer
\* the six EventType values, event.go lines 14-21
AllEventTypes == {"nodeprop", "workflow", "secret", "config", "error", "system"}

\* the events handed to the local consumer
LocalEvents ==
    {[ID |-> <<id>>, Type |-> ty, Name |-> "n", Data |-> <<>>] :
        id \in {"e1", "e2"}, ty \in AllEventTypes}

\* LocalEventConsumer.Consume, event.go lines 314-331: the event is logged;
\* when shouldStore says so it is passed to store.Set under its key, whose
\* error (setOk false) is logged; nil is returned
LocalEventConsume(event, setOk) ==
    /\ Len(localRets) < MaxConsumes
    /\ store' = LocalConsume(event, setOk)
    /\ storeSets' = IF shouldStore(event)
                    THEN Append(storeSets, [key |-> EventKey(event), value |-> event,
                                            ok |-> setOk])
                    ELSE storeSets
    /\ localRets' = Append(localRets, [event |-> event, err |-> Nil])

LocalNext ==
    \E e \in LocalEvents, setOk \in BOOLEAN :
        LocalEventConsume(e, setOk) /\ UNCHANGED outsideLocal

LocalSpec == BusOnlyInit /\ [][LocalNext]_vars

\* ===================================================================
\* The TUI state store (cmd/tui/state/store.go)
\* ===================================================================
\* the ids subscribers register under
StoreIds == {"a", "b"}

\* make(chan State, 1), store.go line 53
ChanBuf == 1

\* at most this many channels are made and this many actions dispatched
MaxStoreChans == 2
MaxDispatches == 2

\* the channels registered under id: s.subs[id], nil for an absent id
ChannelsOf(id) == IF id \in DOMAIN storeSubs THEN storeSubs[id] ELSE <<>>

\* a Subscribe or Unsubscribe is inside its critical section, where it
\* writes s.subs
WritesSubs == storeMu.w # None

\* s.mu.Lock() of Subscribe (line 50) or of Unsubscribe (line 64)
StoreLock(t, op, id) ==
    /\ crashed = None
    /\ calls[t].pc = "idle"
    /\ op = "Subscribe" => Len(storeChans) < MaxStoreChans
    /\ storeMu.w = None /\ storeMu.r = {}
    /\ storeMu' = [storeMu EXCEPT !.w = t]
    /\ calls' = [calls EXCEPT ![t] = [IdleCall EXCEPT !.op = op, !.pc = "locked", !.id = id]]
    /\ UNCHANGED <<storeSubs, storeChans, state, crashed>>

\* Subscribe, lines 53-59, and its deferred Unlock: the new channel is
\* appended to the slice of the id and the current state is sent on it; a send
\* that finds no room in the buffer waits, with the lock held
StoreSubscribe(t) ==
    /\ crashed = None
    /\ storeMu.w = t
    /\ calls[t].op = "Subscribe" /\ calls[t].pc = "locked"
    /\ LET ch == Len(storeChans) + 1
           room == 0 < ChanBuf
       IN /\ storeChans' = Append(storeChans,
                                  [buf |-> IF room THEN <<state>> ELSE <<>>, closed |-> FALSE])
          /\ storeSubs' = Put(storeSubs, calls[t].id, Append(ChannelsOf(calls[t].id), ch))
          /\ IF room
             THEN /\ storeMu' = [storeMu EXCEPT !.w = None]
                  /\ calls' = [calls EXCEPT ![t] = IdleCall]
             ELSE /\ calls' = [calls EXCEPT ![t].pc = "blocked"]
                  /\ UNCHANGED storeMu
    /\ UNCHANGED <<state, crashed>>

\* Unsubscribe, lines 66-70, and its deferred Unlock: every channel of the id
\* is closed and the id is deleted from the table
StoreUnsubscribe(t) ==
    /\ crashed = None
    /\ storeMu.w = t
    /\ calls[t].op = "Unsubscribe" /\ calls[t].pc = "locked"
    /\ LET cs == ChannelsOf(calls[t].id)
       IN storeChans' = [c \in 1..Len(storeChans) |->
                           IF \E k \in 1..Len(cs) : cs[k] = c
                           THEN [storeChans[c] EXCEPT !.closed = TRUE]
                           ELSE storeChans[c]]
    /\ storeSubs' = Remove(storeSubs, {calls[t].id})
    /\ storeMu' = [storeMu EXCEPT !.w = None]
    /\ calls' = [calls EXCEPT ![t] = IdleCall]
    /\ UNCHANGED <<state, crashed>>

\* Dispatch, lines 74-78: the action is applied under the lock, which is
\* released before notify is called
StoreDispatch(t) ==
    /\ crashed = None
    /\ calls[t].pc = "idle"
    /\ state < MaxDispatches
    /\ storeMu.w = None /\ storeMu.r = {}
    /\ state' = state + 1
    /\ calls' = [calls EXCEPT ![t] = [IdleCall EXCEPT !.op = "Dispatch", !.pc = "notify"]]
    /\ UNCHANGED <<storeMu, storeSubs, storeChans, crashed>>

\* notify, lines 85-87: the state is copied under the read lock
NotifyCopy(t) ==
    /\ crashed = None
    /\ calls[t].pc = "notify"
    /\ storeMu.w = None
    /\ calls' = [calls EXCEPT ![t].snap = state, ![t].pc = "range"]
    /\ UNCHANGED <<storeMu, storeSubs, storeChans, state, crashed>>

\* notify, line 89: `range s.subs` produces the next id of the table as it is
\* now, with no lock held.  Met by a write of the table in progress, the
\* runtime may stop the process (concurrent map iteration and map write).
NotifyRange(t, id) ==
    /\ crashed = None
    /\ calls[t].pc = "range"
    /\ id \in (DOMAIN storeSubs) \ calls[t].seen
    /\ \/ /\ calls' = [calls EXCEPT ![t].seen = @ \cup {id}, ![t].chs = storeSubs[id],
                                    ![t].i = 1, ![t].pc = "send"]
          /\ UNCHANGED crashed
       \/ /\ WritesSubs
          /\ crashed' = "concurrent map iteration and map write"
          /\ UNCHANGED calls
    /\ UNCHANGED <<storeMu, storeSubs, storeChans, state>>

\* notify, lines 90-96: one iteration of the inner loop.  The select sends the
\* copied state when the buffer has room and skips the channel otherwise; a
\* send on a closed channel panics.
NotifySend(t) ==
    /\ crashed = None
    /\ calls[t].pc = "send"
    /\ IF calls[t].i > Len(calls[t].chs)
       THEN /\ calls' = [calls EXCEPT ![t].pc = "range"]
            /\ UNCHANGED <<storeChans, crashed>>
       ELSE LET c == calls[t].chs[calls[t].i]
            IN IF storeChans[c].closed
               THEN /\ crashed' = "send on closed channel"
                    /\ UNCHANGED <<storeChans, calls>>
               ELSE /\ storeChans' = IF Len(storeChans[c].buf) < ChanBuf
                                     THEN [storeChans EXCEPT ![c].buf = Append(@, calls[t].snap)]
                                     ELSE storeChans
                    /\ calls' = [calls EXCEPT ![t].i = @ + 1]
                    /\ UNCHANGED crashed
    /\ UNCHANGED <<storeMu, storeSubs, state>>

\* notify returns, line 98, when the table holds no id the loop has not
\* produced; Dispatch returns with it
NotifyReturn(t) ==
    /\ crashed = None
    /\ calls[t].pc = "range"
    /\ DOMAIN storeSubs \subseteq calls[t].seen
    /\ calls' = [calls EXCEPT ![t] = IdleCall]
    /\ UNCHANGED <<storeMu, storeSubs, storeChans, state, crashed>>

\* the subscriber takes a state from the channel Subscribe returned to it
StoreReceive(c) ==
    /\ crashed = None
    /\ storeChans[c].buf # <<>>
    /\ storeChans' = [storeChans EXCEPT ![c].buf = Tail(@)]
    /\ UNCHANGED <<storeMu, storeSubs, state, calls, crashed>>

TuiNext ==
    \/ \E t \in StoreThreads, op \in {"Subscribe", "Unsubscribe"}, id \in StoreIds :
         StoreLock(t, op, id) /\ UNCHANGED outsideTui
    \/ \E t \in StoreThreads : StoreSubscribe(t) /\ UNCHANGED outsideTui
    \/ \E t \in StoreThreads : StoreUnsubscribe(t) /\ UNCHANGED outsideTui
    \/ \E t \in StoreThreads : StoreDispatch(t) /\ UNCHANGED outsideTui
    \/ \E t \in StoreThreads : NotifyCopy(t) /\ UNCHANGED outsideTui
    \/ \E t \in StoreThreads, id \in StoreIds : NotifyRange(t, id) /\ UNCHANGED outsideTui
    \/ \E t \in StoreThreads : NotifySend(t) /\ UNCHANGED outsideTui
    \/ \E t \in StoreThreads : NotifyReturn(t) /\ UNCHANGED outsideTui
    \/ \E c \in 1..Len(storeChans) : StoreReceive(c) /\ UNCHANGED outsideTui

TuiSpec == BusOnlyInit /\ [][TuiNext]_vars

\* ===================================================================
\* File checks of GitHubOperations (github_ops.go)
\* ===================================================================
\* the paths AddWorkflow is called with and the paths CheckFile is asked for,
\* in one repository "o/r"
GhPaths == {<<"ci">>, <<".github/workflows/", "ci", ".yml">>, <<"ci", ".yaml">>}
GhCheckPaths == {<<".github/workflows/", "ci", ".yml">>, <<".github/workflows/", "ci", ".yaml">>}
GhContents == {<<"c1">>, <<"c2">>}

\* at most this many files are written and this many checks made
MaxWrites == 3
MaxChecks == 3

\* CheckFile, line 156: fmt.Sprintf("file:%s/%s/%s", owner, repo, path)
FileKey(owner, repo, path) == <<"file:">> \o owner \o <<"/">> \o repo \o <<"/">> \o path

\* the number of files written to the repository so far
Written ==
    IF DOMAIN remote = {} THEN 0
    ELSE CHOOSE n \in 1..MaxWrites :
           /\ \E p \in DOMAIN remote : remote[p].Rev = n
           /\ \A p \in DOMAIN remote : remote[p].Rev <= n

\* GitHubOperations.AddWorkflow, lines 79-113, succeeding: the file at the
\* normalised path is updated when it exists and created when it does not;
\* the cache is not touched.  A failing call changes nothing.  The Manager's
\* AddWorkflow (part_003 lines 621-628) makes this call and then deletes the
\* key workflows:<repo>, which is no key of CheckFile.
GhAddWorkflow(path, content) ==
    /\ Written < MaxWrites
    /\ remote' = Put(remote, WorkflowPath(path), [Content |-> content, Rev |-> Written + 1])
    /\ UNCHANGED <<fileCache, checks>>

\* CheckFile, lines 154-176; apiErr: GetContents fails with an error other
\* than 404
CheckFile(path, apiErr) ==
    /\ Len(checks) < MaxChecks
    /\ LET cacheKey == FileKey(<<"o">>, <<"r">>, path)
           result(found, content, err, hit) ==
               [path |-> path, found |-> found, content |-> content, err |-> err, hit |-> hit]
       IN IF cacheKey \in DOMAIN fileCache
          THEN /\ checks' = Append(checks, result(TRUE, fileCache[cacheKey], Nil, TRUE))
               /\ UNCHANGED fileCache
          ELSE IF apiErr
          THEN /\ checks' = Append(checks, result(FALSE, Nil, "failed to check file", FALSE))
               /\ UNCHANGED fileCache
          ELSE IF path \notin DOMAIN remote
          THEN /\ checks' = Append(checks, result(FALSE, Nil, Nil, FALSE))
               /\ UNCHANGED fileCache
          ELSE /\ fileCache' = Put(fileCache, cacheKey, remote[path])
               /\ checks' = Append(checks, result(TRUE, remote[path], Nil, FALSE))
    /\ UNCHANGED remote

\* the duration given to cache.Set at line 173 has passed: Get no longer
\* returns the entry (part_005 lines 126-130)
FileCacheExpires(key) ==
    /\ key \in DOMAIN fileCache
    /\ fileCache' = Remove(fileCache, {key})
    /\ UNCHANGED <<remote, checks>>

GhNext ==
    \/ \E p \in GhPaths, c \in GhContents : GhAddWorkflow(p, c) /\ UNCHANGED outsideGh
    \/ \E p \in GhCheckPaths, e \in BOOLEAN : CheckFile(p, e) /\ UNCHANGED outsideGh
    \/ \E p \in GhCheckPaths : FileCacheExpires(FileKey(<<"o">>, <<"r">>, p)) /\ UNCHANGED outsideGh

GhSpec == BusOnlyInit /\ [][GhNext]_vars

\* ===================================================================
\* Properties of the cache
\* ===================================================================

\* the step is a completed call of the named operation
GetStep == ret'.op = "Get" /\ stats' # stats
SetStep == ret'.op = "Set" /\ UNCHANGED <<now, tickPending, disposed>>
DeleteExpiredStep == ret'.op = "DeleteExpired" /\ UNCHANGED <<now, tickPending, disposed>>
SweepStep == tickPending /\ ~tickPending'

Evicted == stats'.Evictions - stats.Evictions

\* C1 (as claimed): a Get of a stored entry that has an expiry finds it, with
\* its value, exactly when the read is strictly before expiresAt; a read at
\* expiresAt or later reports not-found.
C1_GetBeforeExpiresAtOnly ==
    [][GetStep /\ ret'.key \in DOMAIN items /\ items[ret'.key].Expiration > 0
         => /\ ret'.found <=> (now < items[ret'.key].Expiration)
            /\ ret'.found => ret'.value = items[ret'.key].Value]_vars

\* C2 (as claimed): the cache never holds more than maxItems entries.
C2_SizeWithinMax == ItemCount(items) <= maxItems

\* C3 (as claimed): a Set at or above the maximum removes exactly one entry,
\* one with the smallest Expiration, and counts one eviction, before it
\* inserts; a Set below the maximum removes nothing.
C3_SetEvictsOneOldest ==
    [][SetStep =>
         IF ItemCount(items) >= maxItems
         THEN /\ Evicted = 1
              /\ \E victim \in DOMAIN items :
                   /\ \A j \in DOMAIN items :
                        items[victim].Expiration <= items[j].Expiration
                   /\ \E k \in Keys :
                        /\ k \in DOMAIN items'
                        /\ items' = Put(Remove(items, {victim}), k, items'[k])
         ELSE /\ Evicted = 0
              /\ DOMAIN items \subseteq DOMAIN items']_vars

\* C4: a sweep, by a caller or by the background goroutine, leaves every entry
\* without expiry in place, and such an entry is removed or replaced only by
\* a Set, Delete or Clear step.
C4_NoExpiryOutlivesSweep ==
    [][\A k \in DOMAIN items :
         items[k].Expiration = 0 =>
           /\ (DeleteExpiredStep \/ SweepStep)
                => (k \in DOMAIN items' /\ items'[k] = items[k])
           /\ (k \notin DOMAIN items' \/ items'[k] # items[k])
                => ret'.op \in {"Set", "Delete", "Clear"}]_vars

\* the background sweep has removed an expired entry and an entry without
\* expiry is still stored
C4_Witness ==
    /\ ret.op = "DeleteExpired" /\ ret.by = "sweep"
    /\ stats.Evictions > 0
    /\ \E k \in DOMAIN items : items[k].Expiration = 0

NeverExpires(it, k) ==
    /\ it[k].Expiration = 0
    /\ \A t \in now..(MaxTime + 1) :
         GetResult(it, k, t)[2] /\ k \notin ExpiredKeys(it, t)

\* C5 (as claimed): ttl = 0 stores now + the default, whatever the default is;
\* ttl < 0 stores an entry that never expires; ttl > 0 stores now + ttl.
C5_TtlMappingAsClaimed ==
    [][SetStep =>
         /\ ret'.key \in DOMAIN items'
         /\ items'[ret'.key].Value = ret'.value
         /\ ret'.ttl = 0 => items'[ret'.key].Expiration = now + defaultExpiration
         /\ ret'.ttl < 0 => NeverExpires(items', ret'.key)
         /\ ret'.ttl > 0 => items'[ret'.key].Expiration = now + ret'.ttl]_vars

\* C5 (amended): ttl = 0 stores now + the default when the default is
\* positive and a never-expiring entry when the default is zero or negative.
C5_TtlMapping ==
    [][SetStep =>
         /\ ret'.key \in DOMAIN items'
         /\ items'[ret'.key].Value = ret'.value
         /\ (ret'.ttl = 0 /\ defaultExpiration > 0)
              => items'[ret'.key].Expiration = now + defaultExpiration
         /\ (ret'.ttl = 0 /\ defaultExpiration <= 0) => NeverExpires(items', ret'.key)
         /\ ret'.ttl < 0 => NeverExpires(items', ret'.key)
         /\ ret'.ttl > 0 => items'[ret'.key].Expiration = now + ret'.ttl]_vars

\* a Set with ttl = 0 has just stored now + the default, next to an entry
\* stored without expiry
C5_Witness ==
    /\ ret.op = "Set" /\ ret.ttl = 0 /\ defaultExpiration > 0
    /\ ret.key \in DOMAIN items
    /\ items[ret.key].Expiration = now + defaultExpiration
    /\ \E k \in DOMAIN items : items[k].Expiration = 0

\* C7 (as claimed): after DeleteExpired no entry with 0 < expiresAt <= now
\* remains, every other entry is still there unchanged, and the eviction
\* counter grew by the number of entries removed.
C7_SweepRemovesAllPassed ==
    [][DeleteExpiredStep =>
         /\ \A k \in DOMAIN items' :
              ~(items'[k].Expiration > 0 /\ items'[k].Expiration <= now)
         /\ \A k \in DOMAIN items :
              (items[k].Expiration = 0 \/ items[k].Expiration > now)
                => (k \in DOMAIN items' /\ items'[k] = items[k])
         /\ DOMAIN items' \subseteq DOMAIN items
         /\ Evicted = Cardinality(DOMAIN items \ DOMAIN items')]_vars

\* C8 (as claimed): a DeleteExpired that directly follows a DeleteExpired
\* changes neither the entries nor the eviction counter.
C8_SecondSweepNoOpAsClaimed ==
    [][(ret.op = "DeleteExpired" /\ DeleteExpiredStep)
         => (items' = items /\ Evicted = 0)]_vars

\* no stored entry's expiresAt lies between the clock reading of the previous
\* sweep and the present one
NoneExpiredSince(t) ==
    \A k \in DOMAIN items :
       ~(items[k].Expiration > 0 /\ t <= items[k].Expiration
                                 /\ items[k].Expiration < now)

\* C8 (amended): a DeleteExpired that directly follows a DeleteExpired is a
\* no-op provided no stored entry expired between the two calls.
C8_SecondSweepNoOp ==
    [][(ret.op = "DeleteExpired" /\ DeleteExpiredStep /\ NoneExpiredSince(ret.at))
         => (items' = items /\ Evicted = 0)]_vars

\* a second sweep in a row has returned, after expired entries were removed,
\* with entries still stored
C8_Witness ==
    /\ ret.op = "DeleteExpired" /\ ret.again
    /\ stats.Evictions >= 2
    /\ \E k \in DOMAIN items : items[k].Expiration > 0

AllIdle == \A t \in Threads : th[t].pc = "idle"

\* C6 (as claimed): the hit and miss counters lose no update: when no call is
\* in progress, hits + misses is the number of lookups that counted.
C6_NoLostCount ==
    AllIdle => stats.Hits + stats.Misses = lookups

\* C9 (as claimed): once the cache's owner has shut down, the background loop
\* performs no further DeleteExpired.
C9_NoSweepAfterDispose ==
    [][disposed => ~SweepStep]_vars

\* ===================================================================
\* Properties of the event bus
\* ===================================================================

\* the number of records of bag B for subscription s and publish p
RECURSIVE SumCopies(_, _)
SumCopies(B, R) ==
    IF R = {} THEN 0
    ELSE LET r == CHOOSE x \in R : TRUE
         IN CopiesIn(r, B) + SumCopies(B, R \ {r})

CountFor(B, s, p) ==
    SumCopies(B, {r \in BagToSet(B) : r.sub = s /\ r.pub = p})

\* handler goroutines started for (s, p), run or not, and those that have run
Started(s, p) == CountFor(inflight, s, p) + CountFor(handled, s, p)
StartedNext(s, p) == CountFor(inflight', s, p) + CountFor(handled', s, p)
Invoked(s, p) == CountFor(handled, s, p)

SameTypeNameData(e, f) == e.Type = f.Type /\ e.Name = f.Name /\ e.Data = f.Data

\* C10: a Publish starts exactly one handler invocation for every subscription
\* that is registered for the event's type when Publish is called and none for
\* any other subscription (unsubscribed, or of another type); no invocation is
\* added or lost afterwards; every invocation runs the subscription's own
\* handler with an event of the published type, name and data.
C10_FanOut ==
    /\ [][/\ Len(published') = Len(published) + 1 =>
               LET p == Len(published')
               IN \A s \in 1..Len(handles) :
                    StartedNext(s, p) =
                      IF s \in DOMAIN subscribers[published'[p].Type] THEN 1 ELSE 0
          /\ \A s \in 1..Len(handles), p \in 1..Len(published) :
               StartedNext(s, p) = Started(s, p)]_vars
    /\ [](\A r \in BagToSet(inflight) \cup BagToSet(handled) :
            /\ r.sub \in 1..Len(handles) /\ r.pub \in 1..Len(published)
            /\ SameTypeNameData(r.event, published[r.pub])
            /\ r.handler = handles[r.sub].Handler
            /\ handles[r.sub].Type = r.event.Type)

\* one event was published to two subscribed handlers of its type, after a
\* third was unsubscribed: the two have each run once, the third not at all
C10_Witness ==
    /\ Len(published) = 1
    /\ inflight = EmptyBag
    /\ \E s1, s2, s3 \in 1..Len(handles) :
         /\ s1 # s2 /\ s1 # s3 /\ s2 # s3
         /\ \A s \in {s1, s2, s3} : handles[s].Type = published[1].Type
         /\ Invoked(s1, 1) = 1 /\ Invoked(s2, 1) = 1
         /\ s3 \notin DOMAIN subscribers[published[1].Type]
         /\ Invoked(s3, 1) = 0

\* the step is the return of a handler invocation r with an error
FailedReturn(r) ==
    /\ r.err
    /\ CopiesIn(r, handled') = CopiesIn(r, handled) + 1

\* subscription s has returned an error for an earlier event
HasFailed(s) == \E r \in BagToSet(handled) : r.sub = s /\ r.err

\* C12: a handler returning an error takes nothing else with it: the other
\* handler goroutines of the bus stay pending or done, no subscription is
\* removed and nothing is published or unpublished; no handler runs twice for
\* one event; a later Publish starts the handler of every subscription of the
\* type, the ones that have failed included.
C12_HandlerIsolation ==
    /\ [][\A r \in BagToSet(handled') :
            FailedReturn(r) =>
              /\ \A s \in 1..Len(handles), p \in 1..Len(published) :
                   <<s, p>> # <<r.sub, r.pub>> =>
                     /\ CountFor(inflight', s, p) = CountFor(inflight, s, p)
                     /\ CountFor(handled', s, p) = CountFor(handled, s, p)
              /\ UNCHANGED <<subscribers, published, handles>>]_vars
    /\ [][Len(published') = Len(published) + 1 =>
            \A s \in DOMAIN subscribers[published'[Len(published')].Type] :
              HasFailed(s) => CountFor(inflight', s, Len(published')) = 1]_vars
    /\ [](\A s \in 1..Len(handles), p \in 1..Len(published) : Invoked(s, p) <= 1)

\* a handler failed for the first event while another handler of the type ran
\* for it, and the failing handler has run again for the second event
C12_Witness ==
    /\ Len(published) = 2
    /\ published[1].Type = published[2].Type
    /\ \E s1, s2 \in 1..Len(handles) :
         /\ s1 # s2
         /\ \E r \in BagToSet(handled) : r.sub = s1 /\ r.pub = 1 /\ r.err
         /\ \E r \in BagToSet(handled) : r.sub = s2 /\ r.pub = 1 /\ ~r.err
         /\ \E r \in BagToSet(handled) : r.sub = s1 /\ r.pub = 2 /\ r.err

\* the output of stage n of the chain, fed the output of stage n - 1
RECURSIVE StageOutput(_, _, _)
StageOutput(chain, n, event) ==
    IF n = 0 THEN event
    ELSE ApplyMiddleware(chain[n], StageOutput(chain, n - 1, event))

\* C14: AddMiddleware appends to the chain; Publish hands the Consumer and
\* every handler it starts the output of the last stage of the chain, each
\* stage fed the output of the stage registered before it (the published event
\* itself when the chain is empty), and starts handlers for exactly the
\* subscriptions of that resulting event's type.
C14_MiddlewareOrder ==
    /\ [][Len(middleware') > Len(middleware) =>
            /\ Len(middleware') = Len(middleware) + 1
            /\ SubSeq(middleware', 1, Len(middleware)) = middleware]_vars
    /\ [][Len(published') = Len(published) + 1 =>
            LET p == Len(published')
                out == StageOutput(middleware, Len(middleware), published'[p])
            IN /\ consumed' = Append(consumed, out)
               /\ \A s \in 1..Len(handles) :
                    StartedNext(s, p) = IF s \in DOMAIN subscribers[out.Type] THEN 1 ELSE 0
               /\ \A r \in BagToSet(inflight') : r.pub = p => r.event = out]_vars

\* a workflow event went through the renaming stage and then the routing
\* stage: the consumer and a subscriber of the other type got the renamed,
\* rerouted event and the subscriber of the published type got nothing
C14_Witness ==
    /\ middleware = <<"mwRename", "mwRoute">>
    /\ Len(published) = 1 /\ published[1].Type = "workflow"
    /\ consumed[1].Type = "secret" /\ consumed[1].Name = "Renamed"
    /\ \E s1, s2 \in 1..Len(handles) :
         /\ s1 \in DOMAIN subscribers["workflow"] /\ Started(s1, 1) = 0
         /\ s2 \in DOMAIN subscribers["secret"] /\ Invoked(s2, 1) = 1

\* C15: the event a Publish hands to the Consumer and to the handlers carries
\* the time of the Publish when it was published with the zero timestamp, and
\* its own timestamp otherwise.
C15_PublishTimestamp ==
    [][Len(published') = Len(published) + 1 =>
         LET p == Len(published')
             stamp == IF published'[p].Timestamp = 0 THEN now ELSE published'[p].Timestamp
         IN /\ consumed'[p].Timestamp = stamp
            /\ \A r \in BagToSet(inflight') : r.pub = p => r.event.Timestamp = stamp]_vars

\* ===================================================================
\* Properties of the bus called from several goroutines
\* ===================================================================

\* Publish of goroutine t starts a handler goroutine for subscription id
Spawns(t, id) ==
    /\ frames[t].pc = "range"
    /\ id \notin frames[t].visited
    /\ id \in frames'[t].visited

\* C11: once Unsubscribe of a subscription has returned, no Publish call that
\* starts afterwards starts its handler, whatever Subscribe, Unsubscribe and
\* handler steps run in between; the subscription is never registered again;
\* every Subscribe returns a handle whose id no earlier handle has.
C11_UnsubscribeGuarantee ==
    /\ [][\A t \in Publishers, id \in 1..Len(handles) :
            Spawns(t, id) => id \notin frames[t].gone]_vars
    /\ [](\A id \in unsubbed : id \notin DOMAIN subscribers[handles[id].Type])
    /\ [][unsubbed \subseteq unsubbed']_vars
    /\ [](\A i, j \in 1..Len(handles) : handles[i].ID = handles[j].ID => i = j)

\* a Publish that started after subscription 1 was unsubscribed has started the
\* handler of subscription 2, created later with the same type and handler
C11_Witness ==
    /\ Len(handles) = 2
    /\ handles[1].Type = handles[2].Type /\ handles[1].Handler = handles[2].Handler
    /\ \E t \in Publishers :
         /\ frames[t].pc = "range"
         /\ 1 \in frames[t].gone
         /\ 2 \in frames[t].visited

\* handler goroutines started for subscription s and publish p: pending, done
\* or running a handler that calls the bus
Running(s, p) ==
    Cardinality({t \in HandlerThreads : /\ frames[t].pc \in {"handler", "return"}
                                        /\ frames[t].g.sub = s
                                        /\ frames[t].g.pub = p})
StartedFor(s, p) == Started(s, p) + Running(s, p)

\* the Consume calls made for publish p, before and after the step
ConsumedFor(p) == {i \in 1..Len(consumeLog) : consumeLog[i].pub = p}
ConsumedForNext(p) == {i \in 1..Len(consumeLog') : consumeLog'[i].pub = p}

\* the Publish call of goroutine t returns
Returns(t) == frames[t].pc # "idle" /\ frames'[t].pc = "idle"

\* C13: Consume is called at most once per Publish and exactly once by the
\* time Publish returns; it is passed the published event run through the
\* middleware chain read at the call; no handler goroutine of the publish
\* exists before it; when Publish returns, whether Consume failed or not, a
\* handler goroutine has been started for every subscription of the consumed
\* event's type that existed when Publish was called and is still registered.
C13_ConsumerStep ==
    /\ [](\A p \in 1..Len(published) : Cardinality(ConsumedFor(p)) <= 1)
    /\ [](\A s \in 1..Len(handles), p \in 1..Len(published) :
            StartedFor(s, p) > 0 => ConsumedFor(p) # {})
    /\ [][\A t \in Publishers :
            (Len(consumeLog') > Len(consumeLog) /\ frames[t].pc = "middleware") =>
              LET x == consumeLog'[Len(consumeLog')]
              IN /\ x.pub = frames[t].pub
                 /\ x.event = RunMiddleware(frames[t].chain, 1, published[x.pub])
                 /\ \A s \in 1..Len(handles) : StartedFor(s, x.pub) = 0]_vars
    /\ [][\A t \in Publishers :
            Returns(t) =>
              LET p == frames[t].pub
              IN /\ Cardinality(ConsumedForNext(p)) = 1
                 /\ \A i \in ConsumedForNext(p), id \in 1..frames[t].known :
                      id \in DOMAIN subscribers[consumeLog'[i].event.Type]
                        => StartedFor(id, p) = 1]_vars

\* a Publish whose Consume failed has returned: the consumer was given the
\* event renamed by the middleware and a subscribed handler has been started
C13_Witness ==
    /\ Len(consumeLog) = 1
    /\ consumeLog[1].err
    /\ consumeLog[1].event.Name = "Renamed"
    /\ \A t \in Publishers : frames[t].pc = "idle"
    /\ \E s \in 1..Len(handles) : StartedFor(s, 1) = 1

\* goroutine t holds eb.mu
HoldsBusLock(t) == bmu.w = t \/ t \in bmu.r

\* no goroutine holds eb.mu where caller-supplied code runs: in the middleware
\* loop and the Consume call of Publish, in the fan-out loop that starts the
\* handlers, and in a handler outside its own call of the bus
NoLockInCallbacks ==
    \A t \in BusThreads :
      \/ frames[t].pc \in {"middleware", "range", "return"}
      \/ frames[t].pc = "handler" /\ wcall[t] = NoCall
      => ~HoldsBusLock(t)

\* a step of goroutine t inside the call it is in
ThreadStep(t) ==
    \/ BusLock(t, UnsubscribeCall(handles[frames[t].g.sub]))
    \/ BusUnlock(t)
    \/ PublishMiddleware(t)
    \/ \E err \in BOOLEAN : PublishConsume(t, err)
    \/ PublishRLock(t)
    \/ PublishRUnlock(t)
    \/ \E id \in 1..Len(handles) : PublishRange(t, id)
    \/ PublishReturn(t)
    \/ HandlerReturn(t)

\* every goroutine inside a call can take a step, or waits for eb.mu while its
\* holder can take one
NotStuck ==
    \A t \in BusThreads :
      frames[t].pc # "idle" =>
        \/ ENABLED ThreadStep(t)
        \/ \E u \in BusThreads \ {t} : HoldsBusLock(u) /\ ENABLED ThreadStep(u)

\* C17: the bus never holds its lock while middleware, the Consumer or a
\* handler runs, and every call of the bus, made by a caller or from inside a
\* handler, runs to its end: the process is not stopped and no goroutine is
\* stuck.
C17_NoLockNoDeadlock ==
    /\ NoLockInCallbacks
    /\ ~fatal
    /\ ~fatal => NotStuck

\* the publish numbers of the Publish calls goroutine t has made, in call order
RECURSIVE PubsBy(_, _)
PubsBy(t, n) ==
    IF n = 0 THEN <<>>
    ELSE IF \E i \in 1..Len(consumeLog) : consumeLog[i].pub = n /\ consumeLog[i].by # t
         THEN PubsBy(t, n - 1)
         ELSE Append(PubsBy(t, n - 1), n)

\* the publish numbers the Consumer was given by goroutine t, in Consume order
RECURSIVE ConsumedBy(_, _)
ConsumedBy(t, n) ==
    IF n = 0 THEN <<>>
    ELSE IF consumeLog[n].by = t
         THEN Append(ConsumedBy(t, n - 1), consumeLog[n].pub)
         ELSE ConsumedBy(t, n - 1)

IsPrefix(a, b) == Len(a) <= Len(b) /\ SubSeq(b, 1, Len(a)) = a

\* C20: the Consumer is given the events of one goroutine's Publish calls in
\* the order of the calls, each once: what it has been given is always the
\* first so many of the calls, short of at most the call in progress, whatever
\* handler goroutines of earlier calls are still pending.
C20_ConsumerOrder ==
    \A t \in Publishers :
      /\ IsPrefix(ConsumedBy(t, Len(consumeLog)), PubsBy(t, Len(published)))
      /\ Len(ConsumedBy(t, Len(consumeLog))) >= Len(PubsBy(t, Len(published))) - 1

\* the Consumer has the first and the second event in that order, while a
\* handler of the first is still pending and a handler of the second has run
C20_Witness ==
    /\ Len(consumeLog) = 2
    /\ consumeLog[1].pub = 1 /\ consumeLog[2].pub = 2
    /\ \E g \in BagToSet(inflight) : g.pub = 1
    /\ \E r \in BagToSet(handled) : r.pub = 2

\* ===================================================================
\* Properties of channel subscribers and streams
\* ===================================================================

InBuf(buf, x) == \E k \in 1..Len(buf) : buf[k] = x

\* channel subscribers: a Publish / Emit appends the event to every channel of
\* its type that has room and to no other; an event that met a full channel is
\* never in that channel nor received from it; no channel gets an event twice
ChannelDrop ==
    /\ [][Len(emitted') = Len(emitted) + 1 =>
            LET p == Len(emitted')
            IN \A i \in 1..Len(chans) :
                 IF chans[i].Type = emitted'[p].Type /\ Len(chans[i].buf) < ChanCap
                 THEN chans'[i].buf = Append(chans[i].buf, p)
                 ELSE chans'[i].buf = chans[i].buf]_vars
    /\ [](\A i \in 1..Len(chans), p \in 1..Len(emitted) :
            /\ <<"chan", i, p>> \in full =>
                 ~InBuf(chans[i].buf, p) /\ <<"chan", i, p>> \notin got
            /\ Cardinality({k \in 1..Len(chans[i].buf) : chans[i].buf[k] = p})
                 + (IF <<"chan", i, p>> \in got THEN 1 ELSE 0) <= 1)

\* streams: an event whose handler met a full stream buffer is never in the
\* buffer nor received by the reader; the stream gets no event twice
StreamDrop ==
    [](\A s \in 1..Len(handles), p \in 1..Len(published) :
         /\ <<"stream", s, p>> \in full =>
              ~InBuf(streamBuf, <<s, p>>) /\ <<"stream", s, p>> \notin got
         /\ Cardinality({k \in 1..Len(streamBuf) : streamBuf[k] = <<s, p>>})
              + (IF <<"stream", s, p>> \in got THEN 1 ELSE 0) <= 1)

\* C16: an event that meets a full buffer is dropped for that subscriber only
\* and never delivered to it later, the other subscribers of the type get it,
\* and no subscriber gets an event twice, for channel subscribers and for
\* streams alike.
C16_DropOnFull == ChannelDrop /\ StreamDrop

\* ===================================================================
\* Properties of the batching remote consumer
\* ===================================================================

\* the events of the batches passed to SendEvents, in order
RECURSIVE Flatten(_, _)
Flatten(batches, n) ==
    IF n = 0 THEN <<>> ELSE Flatten(batches, n - 1) \o batches[n].events

\* the events Consume has accepted (returned nil for), in call order
RECURSIVE Accepted(_)
Accepted(n) ==
    IF n = 0 THEN <<>>
    ELSE IF consumeRet[n].err = Nil THEN Append(Accepted(n - 1), n) ELSE Accepted(n - 1)

\* event e is in the queue, in the pending batch or in a batch already sent
Held(e) ==
    InBuf(queue, e) \/ InBuf(batch, e) \/ InBuf(Flatten(sent, Len(sent)), e)

\* the step is a Consume call
ConsumeStep == Len(consumeRet') = Len(consumeRet) + 1

QueueBounded ==
    /\ Len(queue) <= QueueCap
    /\ \A e \in 1..Len(consumeRet) : consumeRet[e].err # Nil => ~Held(e)

\* C18 (as claimed): a Consume that finds room queues the event and returns
\* nil; one that finds the queue full leaves it alone and returns an error;
\* the queue never exceeds its capacity and a dropped event is never queued,
\* batched or sent.
C18_ConsumeQueueAsClaimed ==
    /\ [][ConsumeStep =>
            LET e == Len(consumeRet')
            IN IF Len(queue) < QueueCap
               THEN queue' = Append(queue, e) /\ consumeRet'[e].err = Nil
               ELSE queue' = queue /\ consumeRet'[e].err # Nil]_vars
    /\ []QueueBounded

\* C18 (amended): as claimed when the ctx passed to Consume is not done; with
\* a ctx that is done, a Consume that finds room either queues the event and
\* returns nil or drops it and returns ctx.Err(), and one that finds the queue
\* full drops it and returns ctx.Err().
C18_ConsumeQueue ==
    /\ [][ConsumeStep =>
            LET e == Len(consumeRet')
                r == consumeRet'[e]
                queued == queue' = Append(queue, e) /\ r.err = Nil
                dropped == queue' = queue /\ r.err # Nil
            IN /\ (Len(queue) < QueueCap /\ ~r.ctxDone) => queued
               /\ (Len(queue) < QueueCap /\ r.ctxDone) =>
                    queued \/ (dropped /\ r.err = "ctx.Err()")
               /\ (Len(queue) >= QueueCap /\ ~r.ctxDone) =>
                    dropped /\ r.err = "event channel full"
               /\ (Len(queue) >= QueueCap /\ r.ctxDone) =>
                    dropped /\ r.err = "ctx.Err()"]_vars
    /\ []QueueBounded

\* the queue is full; one event was dropped on the full queue, one was dropped
\* with room because its ctx was done, and one was queued although its ctx was
\* done
C18_Witness ==
    /\ Len(queue) = QueueCap
    /\ \E e \in 1..Len(consumeRet) :
         consumeRet[e].err = "event channel full" /\ ~consumeRet[e].room
    /\ \E e \in 1..Len(consumeRet) :
         consumeRet[e].err = "ctx.Err()" /\ consumeRet[e].room
    /\ \E e \in 1..Len(consumeRet) :
         consumeRet[e].err = Nil /\ consumeRet[e].ctxDone

\* C19: the batch is sent the moment it holds batchSize events and at every
\* tick taken with a non-empty batch; every batch sent holds between 1 and
\* batchSize events; the batches sent, the pending batch and the queue hold
\* the accepted events in the order of acceptance, each once; a send, failed
\* or not, leaves the loop running with an empty batch.
C19_BatchFlushing ==
    /\ [](/\ Len(batch) < BatchSize
          /\ \A k \in 1..Len(sent) : Len(sent[k].events) \in 1..BatchSize
          /\ Flatten(sent, Len(sent)) \o batch \o queue = Accepted(Len(consumeRet)))
    /\ [][(Len(queue') < Len(queue) /\ Len(batch) + 1 >= BatchSize) =>
            /\ Len(sent') = Len(sent) + 1
            /\ sent'[Len(sent')].events = Append(batch, Head(queue))]_vars
    /\ [][(recTick /\ ~recTick' /\ batch # <<>>) =>
            /\ Len(sent') = Len(sent) + 1
            /\ sent'[Len(sent')].events = batch]_vars
    /\ [][Len(sent') > Len(sent) =>
            /\ SubSeq(sent', 1, Len(sent)) = sent
            /\ batch' = <<>>
            /\ proc' = "running"]_vars

\* a full batch whose SendEvents failed was followed by a batch sent on a tick
\* with a single event, and a later event is pending
C19_Witness ==
    /\ Len(sent) = 2
    /\ Len(sent[1].events) = BatchSize /\ ~sent[1].ok
    /\ Len(sent[2].events) = 1 /\ sent[2].ok
    /\ batch # <<>>

\* ===================================================================
\* Properties of the Manager
\* ===================================================================
\* the arguments of the call fail the validation of its operation
Invalid(o) ==
    CASE o.op = "AddWorkflow" -> ~ValidateWorkflowArgs(o.args)
      [] o.op = "AddSecret" -> ~ValidateSecretArgs(o.args)
      [] o.op = "GenerateNodeProp" -> ~ValidateNodePropArgs(o.args)
      [] OTHER -> FALSE

\* the step is the call of an operation, the last element of ops'
CallStep == Len(ops') = Len(ops) + 1

\* the collaborator calls made by call c, and the events it has emitted
CallsOf(c) == {i \in 1..Len(ghCalls) : ghCalls[i].by = c}

IsValidationError(err) ==
    /\ err # <<>>
    /\ HasSuffix(err, <<"validation error">>)
    /\ err[1] \in {"invalid workflow arguments", "invalid secret arguments",
                   "invalid nodeprop arguments"}

\* C21: a call of AddWorkflow, AddSecret or GenerateNodeProp whose arguments
\* fail validation returns a validation error at once, and neither that step
\* nor any later one makes a collaborator call, changes the cache or the
\* store, or emits an event for it.
C21_ValidationRejection ==
    /\ [][CallStep /\ Invalid(ops'[Len(ops')]) =>
            /\ ops'[Len(ops')].pc = "done"
            /\ IsValidationError(ops'[Len(ops')].err)
            /\ UNCHANGED <<items, stats, store, ghCalls, emitted, chans, uuids>>]_vars
    /\ [](\A c \in 1..Len(ops) : Invalid(ops[c]) =>
            /\ ops[c].pc = "done"
            /\ IsValidationError(ops[c].err)
            /\ CallsOf(c) = {}
            /\ ops[c].ev = 0)

\* two of the operations have rejected a call (an empty Repository, an empty
\* RepoName) while the cache
\* held an entry and a subscriber was listening
C21_Witness ==
    /\ Len(ops) = 2
    /\ ops[1].op = "AddWorkflow" /\ ops[1].args.Repository = <<>> /\ ops[1].pc = "done"
    /\ ops[2].op = "GenerateNodeProp" /\ Invalid(ops[2]) /\ ops[2].pc = "done"
    /\ DOMAIN items # {}
    /\ chans # <<>>

\* the collaborator call of call c has failed
FailedCall(c) == \E i \in CallsOf(c) : ~ghCalls[i].ok

\* the error is the collaborator's error with context in front of it
WrapsCause(err) ==
    \E cause \in {<<"github error">>, <<"processor error">>} :
        HasSuffix(err, cause) /\ Len(err) > Len(cause)

\* the number of events of type error that call c has emitted
ErrorEventsOf(c) ==
    IF ops[c].ev # 0 /\ emitted[ops[c].ev].Type = "error" THEN 1 ELSE 0

ReturnsWrapped == \A c \in 1..Len(ops) :
    ops[c].pc = "done" /\ FailedCall(c) => WrapsCause(ops[c].err)

\* C22: when the collaborator call of AddWorkflow, AddSecret or
\* GenerateNodeProp fails, the operation returns the collaborator's error
\* wrapped with operation context, and exactly one event of type error is
\* emitted for it.
C22_CollaboratorFailure ==
    \A c \in 1..Len(ops) :
        ops[c].pc = "done" /\ FailedCall(c) =>
            /\ WrapsCause(ops[c].err)
            /\ ErrorEventsOf(c) = 1

\* call c is an AddWorkflow with {Repository, Name, Content} that passed
\* validation and has returned after its collaborator call succeeded
AddedWorkflow(c) ==
    /\ ops[c].op = "AddWorkflow" /\ ops[c].pc = "done"
    /\ ops[c].args.Template = <<>>
    /\ CallsOf(c) # {} /\ ~FailedCall(c)

\* every emitted event is the one event of one call
OneEventEach ==
    /\ Len(emitted) = Cardinality({c \in 1..Len(ops) : ops[c].ev # 0})
    /\ \A c, d \in 1..Len(ops) : ops[c].ev # 0 /\ ops[c].ev = ops[d].ev => c = d

\* call c made one collaborator call, for its repository and the given path,
\* returned nil and emitted one WorkflowAdded event with its name and content
AddedOnce(c, path) ==
    /\ Cardinality(CallsOf(c)) = 1
    /\ \A i \in CallsOf(c) :
        /\ ghCalls[i].op = "CreateWorkflow"
        /\ ghCalls[i].repo = ops[c].args.Repository
        /\ ghCalls[i].path = path
    /\ ops[c].err = <<>>
    /\ ops[c].ev \in 1..Len(emitted)
    /\ emitted[ops[c].ev].Type = "workflow"
    /\ emitted[ops[c].ev].Name = "WorkflowAdded"
    /\ emitted[ops[c].ev].Data.Name = ops[c].args.Name
    /\ emitted[ops[c].ev].Data.Content = ops[c].args.Content

NormalPath(name) ==
    LET last == name[Len(name)]
        dir == IF name[1] = ".github/workflows/" THEN <<>> ELSE <<".github/workflows/">>
        ext == IF last \in {".yml", ".yaml"} THEN <<>> ELSE <<".yml">>
    IN dir \o name \o ext

Generated(c) ==
    ops[c].op = "GenerateNodeProp" /\ ops[c].pc = "done" /\ ops[c].ev # 0

\* the descriptor of call c holds its arguments, Status "active", a non-empty
\* ID, and nothing of what the cache held under its key when it was called
FreshDescriptor(c) ==
    LET d == ops[c].nodeProp
        a == ops[c].args
    IN /\ d.Name = a.RepoName /\ d.Domain = a.Domain
       /\ d.Status = <<"active">> /\ d.ID # <<>>
       /\ d.Address = <<"https://github.com/Cdaprod/">> \o a.RepoName
       /\ d.Owner = <<"Cdaprod">>
       /\ \A i \in 1..Len(ops[c].pre) : d.ID # ops[c].pre[i].Value.ID

\* the step in which call c stores its descriptor in the cache
CacheStep(c) ==
    /\ c \in 1..Len(ops) /\ ops[c].op = "GenerateNodeProp"
    /\ ops[c].pc = "cache" /\ ops'[c].pc = "emit"

\* C24: every successful GenerateNodeProp call with {RepoName, Domain} has a
\* descriptor with Name = RepoName, Domain = Domain, Status "active" and a
\* non-empty ID unlike that of every other call, built from the arguments
\* alone; it was written once, as .nodeprop.yml, is the data of exactly one
\* nodeprop event, and the cache step stores it under the repository key.
C24_DescriptorGeneration ==
    /\ [](/\ OneEventEach
          /\ \A c \in 1..Len(ops) : Generated(c) =>
                /\ FreshDescriptor(c)
                /\ \A d \in 1..Len(ops) :
                      d # c /\ ops[d].op = "GenerateNodeProp" /\ ops[d].nodeProp.ID # <<>>
                         => ops[d].nodeProp.ID # ops[c].nodeProp.ID
                /\ Cardinality(CallsOf(c)) = 1
                /\ \A i \in CallsOf(c) :
                      /\ ghCalls[i].op = "CreateFile" /\ ghCalls[i].ok
                      /\ ghCalls[i].path = <<".nodeprop.yml">>
                      /\ Unmarshal(ghCalls[i].data) = ops[c].nodeProp
                /\ ops[c].ev \in 1..Len(emitted)
                /\ emitted[ops[c].ev].Type = "nodeprop"
                /\ emitted[ops[c].ev].Data = ops[c].nodeProp)
    /\ [][\A c \in 1..Len(ops) : CacheStep(c) =>
            /\ NodePropKey(ops[c].args.RepoPath) \in DOMAIN items'
            /\ items'[NodePropKey(ops[c].args.RepoPath)].Value = ops[c].nodeProp]_vars

\* two GenerateNodeProp calls for one repository have succeeded, the first
\* called while the cache held an older descriptor of that repository
C24_Witness ==
    /\ Len(ops) = 2 /\ Generated(1) /\ Generated(2)
    /\ ops[1].pre # <<>> /\ ops[1].pre[1].Value.Domain = <<"d0">>
    /\ ops[1].args.Domain = <<"d1">> /\ ops[2].args.Domain = <<"d2">>
    /\ NodePropKey(<<"p">>) \in DOMAIN items
    /\ items[NodePropKey(<<"p">>)].Value \in {ops[1].nodeProp, ops[2].nodeProp}

\* call c had valid arguments, has returned, and the collaborator did not
\* fail it
Unfailed(c) ==
    /\ ops[c].pc = "done" /\ ~Invalid(ops[c]) /\ ~FailedCall(c)
    /\ ops[c].op = "AddWorkflow" => ops[c].args.Template = <<>>

\* the calls of the operation and arguments of call c
SameAs(c) ==
    {d \in 1..Len(ops) : ops[d].op = ops[c].op /\ ops[d].args = ops[c].args /\ Unfailed(d)}

\* the external effects performed for, and the success events emitted by, the
\* calls in K
EffectsOf(K) == {i \in 1..Len(ghCalls) : ghCalls[i].by \in K /\ ghCalls[i].ok}

SuccessEventsOf(K) ==
    {p \in 1..Len(emitted) :
        /\ \E d \in K : ops[d].ev = p
        /\ emitted[p].Name \in {"WorkflowAdded", "SecretAdded", "NodePropGenerated"}}

C26_CancelledAtEntry ==
    /\ [][CallStep /\ ops'[Len(ops')].ctxDone =>
            /\ ops'[Len(ops')].pc = "done" /\ ops'[Len(ops')].err # <<>>
            /\ UNCHANGED <<items, ghCalls, emitted>>]_vars
    /\ [](\A c \in 1..Len(ops) : ops[c].ctxDone =>
            /\ ops[c].pc = "done" /\ ops[c].err # <<>>
            /\ CallsOf(c) = {} /\ ops[c].ev = 0)

\* the step in which call c of the file-copy AddWorkflow returns nil
FileReturnsNil(c) ==
    /\ c \in 1..Len(ops) /\ ops[c].op = "FileAddWorkflow"
    /\ ops[c].pc # "done" /\ ops'[c].pc = "done" /\ ops'[c].err = <<>>

\* the .nodeprop.yml of the repository of call c, as read back from the files
\* f, has a non-empty ID, the base name, its address and the domain of c
DescriptorOf(f, c) ==
    LET d == Unmarshal(f[NodePropPath(ops[c].args)])
    IN /\ d.ID # <<>>
       /\ d.Name = <<"repo">>
       /\ d.Address = <<"https://github.com/Cdaprod/", "repo">>
       /\ d.Domain = ops[c].args.Domain

\* C27: whenever AddWorkflow(args) of the file-copy manager returns nil, the
\* target repository holds .github/workflows/<Workflow>.yml with the
\* template's content and a .nodeprop.yml whose ID is non-empty, whose Name is
\* the base name of RepoPath, whose Address is
\* https://github.com/Cdaprod/<base name>, whose Status is "active" and whose
\* Domain is args.Domain.
C27_FileAddWorkflow ==
    [][\A c \in 1..Len(ops) : FileReturnsNil(c) =>
         /\ <<"/", "tmp", "/", "repo", "/", ".github", "/", "workflows", "/">>
              \o ops[c].args.Workflow \o <<".yml">> \in DOMAIN fs'
         /\ fs'[WorkflowFile(ops[c].args)] = IndexWorkflow
         /\ <<"/", "tmp", "/", "repo", "/", ".nodeprop.yml">> \in DOMAIN fs'
         /\ DescriptorOf(fs', c)
         /\ Unmarshal(fs'[NodePropPath(ops[c].args)]).Status = <<"active">>]_vars

\* everything C27 says except the Status
C27_AllButStatus ==
    [][\A c \in 1..Len(ops) : FileReturnsNil(c) =>
         /\ WorkflowFile(ops[c].args) \in DOMAIN fs'
         /\ fs'[WorkflowFile(ops[c].args)] = IndexWorkflow
         /\ NodePropPath(ops[c].args) \in DOMAIN fs'
         /\ DescriptorOf(fs', c)]_vars

\* no step of the program is enabled: every goroutine of the signal handling
\* waits on an empty channel, has returned, or the process has exited
ProgramIdle ==
    \/ exited
    \/ /\ impl # "none" /\ ActionCh = <<>>
       /\ \/ listener = "returned"
          \/ listener = "run" /\ SignalCh = <<>>

SighupsSent == Cardinality({i \in 1..Len(signals) : signals[i] = "SIGHUP"})

\* C28: after SIGINT or SIGTERM the process terminates; after SIGHUP the
\* configuration is reloaded and the application keeps running and reacting,
\* for any sequence of SIGHUPs followed by one SIGINT or SIGTERM.  Stated on
\* the states in which the program has nothing left to do and no further
\* signal is sent: there the process has exited if a termination signal was
\* sent, the SIGHUPs have been answered by a reload, and only a termination
\* signal ends the process.
C28_SignalHandling ==
    /\ exited => TermSent
    /\ ProgramIdle /\ TermSent => exited
    /\ ProgramIdle /\ SighupsSent > 0 => reloads > 0

\* C29: every event published by a Manager operation carries a non-empty
\* identifier unlike that of every other published event, so that two events
\* the local consumer records under events:<type>:<id> never share a store
\* key and a later event never overwrites an earlier one.
C29_UniqueEventId ==
    \A p, q \in 1..Len(emitted) :
        /\ emitted[p].ID # <<>>
        /\ p # q => /\ emitted[p].ID # emitted[q].ID
                    /\ EventKey(emitted[p]) # EventKey(emitted[q])
        /\ EventKey(emitted[p]) \in DOMAIN store
              => store[EventKey(emitted[p])] = emitted[p]

\* the part of C29 about the store alone: no recorded event has been replaced
\* by a later one
C29_NoOverwrite ==
    \A p, q \in 1..Len(emitted) :
        p < q /\ EventKey(emitted[q]) \in DOMAIN store /\ store[EventKey(emitted[q])] = emitted[q]
            => EventKey(emitted[p]) # EventKey(emitted[q])

\* the cache still holds, under the key of call c, the entry it held when c
\* was called
StaleFor(c, it) ==
    /\ ops[c].pre # <<>>
    /\ ops[c].key \in DOMAIN it
    /\ it[ops[c].key] = ops[c].pre[1]

\* the step hands the success event of call c to the consumer (the step that
\* emits it) or to a subscriber (the step that receives it)
HandlesEventOf(c) ==
    \/ ops[c].ev = 0 /\ ops'[c].ev # 0
    \/ ops[c].ev # 0 /\ \E i \in 1..Len(chans) :
          <<"chan", i, ops[c].ev>> \in got' \ got

\* the step is a collaborator call that fails
FailedEffectStep == Len(ghCalls') = Len(ghCalls) + 1 /\ ~ghCalls'[Len(ghCalls')].ok

\* C30: in AddWorkflow, AddSecret and GenerateNodeProp the external effect
\* comes first, then the cache entry of the repository is invalidated or
\* refreshed, then the success event is emitted: the cache changes only for a
\* call whose effect has succeeded and whose event is not out yet, no consumer
\* or subscriber handles a success event while the entry the cache held at
\* the call is still there, and a failed collaborator call leaves the cache
\* alone and is followed by no success event.
C30_SuccessOrdering ==
    /\ [][/\ ops # <<>> /\ items' # items =>
               \E c \in 1..Len(ops) :
                   /\ CallsOf(c) # {} /\ ~FailedCall(c)
                   /\ ops[c].ev = 0 /\ ops'[c].ev = 0
          /\ \A c \in 1..Len(ops) : HandlesEventOf(c) =>
               /\ CallsOf(c) # {} /\ ~FailedCall(c)
               /\ ~StaleFor(c, items) /\ ~StaleFor(c, items')
          /\ FailedEffectStep => UNCHANGED <<items, stats, emitted, store>>]_vars
    /\ [](\A c \in 1..Len(ops) : FailedCall(c) => ops[c].pc = "done" /\ ops[c].ev = 0)

\* an AddWorkflow called while the cache held the repository's workflow list
\* has succeeded, the list is gone and the subscriber has received the event;
\* a second call has failed at the collaborator and emitted nothing
C30_Witness ==
    /\ Len(ops) = 2
    /\ ops[1].op = "AddWorkflow" /\ ops[1].pre # <<>> /\ ops[1].ev = 1
    /\ ops[1].key \notin DOMAIN items
    /\ <<"chan", 1, 1>> \in got
    /\ FailedCall(2) /\ ops[2].pc = "done" /\ ops[2].pre = <<>>

\* ===================================================================
\* Properties of the local consumer, the cache and the remaining components
\* ===================================================================
\* the step is a call of LocalEventConsumer.Consume; its event
LocalStep == Len(localRets') = Len(localRets) + 1
LocalEvent == localRets'[Len(localRets')].event

\* C31: LocalEventConsumer.Consume passes the event to the Store exactly when
\* its type is nodeprop, workflow or secret, makes at most one Store.Set call
\* per event, stores the event under events:<type>:<id> when that call
\* succeeds, leaves the Store alone otherwise, and returns nil in every case,
\* a failing Store.Set included.
C31_LocalConsumerPolicy ==
    [][LocalStep =>
        LET e == LocalEvent
            stored == e.Type \in {"nodeprop", "workflow", "secret"}
            key == <<"events:", e.Type, ":">> \o e.ID
            sets == Len(storeSets') - Len(storeSets)
        IN /\ localRets'[Len(localRets')].err = Nil
           /\ sets = (IF stored THEN 1 ELSE 0)
           /\ sets = 1 =>
                /\ storeSets'[Len(storeSets')].key = key
                /\ storeSets'[Len(storeSets')].value = e
                /\ IF storeSets'[Len(storeSets')].ok
                   THEN store' = Put(store, key, e)
                   ELSE store' = store
           /\ sets = 0 => store' = store]_vars

\* a workflow event has been stored, the Store.Set of a secret event has
\* failed, and an error event has been consumed without a Store.Set
C31_Witness ==
    /\ Len(localRets) = 3 /\ Len(storeSets) = 2
    /\ localRets[1].event.Type = "workflow" /\ storeSets[1].ok
    /\ localRets[2].event.Type = "secret" /\ ~storeSets[2].ok
    /\ localRets[3].event.Type = "error"
    /\ DOMAIN store = {<<"events:", "workflow", ":", "e1">>}

\* C32: after every cache operation the Size that Stats() reports is the
\* number of entries stored, across Set (with and without eviction), Delete,
\* Clear and DeleteExpired.
C32_SizeIsItemCount == stats.Size = Cardinality(DOMAIN items)

\* a Set at capacity has evicted an entry and the cache holds two entries
C32_Witness ==
    /\ ret.op = "Set" /\ stats.Evictions = 1
    /\ stats.Size = 2 /\ Cardinality(DOMAIN items) = 2

\* C33: a Set on a key that is already present only replaces that key's
\* entry: the other keys and their entries are unchanged and the eviction
\* counter does not change, also when the cache is exactly at its maximum
\* size.
C33_SetExistingKeyFrame ==
    [][SetStep /\ ret'.key \in DOMAIN items =>
         /\ DOMAIN items' = DOMAIN items
         /\ \A k \in DOMAIN items : k # ret'.key => items'[k] = items[k]
         /\ Evicted = 0]_vars

\* C33 below capacity: there the Set on a present key changes nothing else
C33_BelowCapacity ==
    [][SetStep /\ ret'.key \in DOMAIN items /\ ItemCount(items) < maxItems =>
         /\ DOMAIN items' = DOMAIN items
         /\ \A k \in DOMAIN items : k # ret'.key => items'[k] = items[k]
         /\ Evicted = 0]_vars

\* C34: eviction treats a never-expiring entry as expiring later than every
\* entry with a finite expiry: when a Set runs at capacity and the cache
\* holds an entry with a finite expiresAt, the entry it evicts has a finite
\* expiresAt; a never-expiring entry is evicted only when all stored entries
\* never expire.
C34_EvictsFiniteFirst ==
    [][SetStep /\ ItemCount(items) >= maxItems
         /\ (\E k \in DOMAIN items : items[k].Expiration > 0) =>
            \A k \in DOMAIN items :
                items[k].Expiration = 0 /\ k # ret'.key => k \in DOMAIN items']_vars

\* C35: Items() and Get agree on liveness at every instant: with no
\* operation in between, a stored key is in the map Items() returns exactly
\* when Get of it reports found, at every time, the entry's expiresAt
\* included.
C35_ItemsAgreesWithGet ==
    \A k \in DOMAIN items : (k \in ItemsKeys(items, now)) <=> GetResult(items, k, now)[2]

\* away from the instant expiresAt the two agree
C35_AgreeOffBoundary ==
    \A k \in DOMAIN items :
        now # items[k].Expiration =>
            ((k \in ItemsKeys(items, now)) <=> GetResult(items, k, now)[2])

\* Publish of goroutine t reads eb.middleware in this step: the slice is read
\* once, where `range eb.middleware` of line 350 starts
ReadsMiddleware(t) ==
    /\ frames[t].pc = "idle"
    /\ frames'[t].pc = "middleware" \/ (fatal' /\ ~fatal /\ Len(published') > Len(published))

\* Publish of goroutine t is inside `range handlers`, lines 364-372
IteratesHandlers(t) == frames[t].pc = "range"

\* C36: Publish works on a consistent snapshot of the bus: no Subscribe,
\* Unsubscribe or AddMiddleware is inside its critical section, writing the
\* handler map or the middleware chain, while a Publish reads the chain or
\* iterates that handler map.
C36_PublishSnapshot ==
    /\ [](\A t \in Publishers :
            IteratesHandlers(t) => ~WritesHandlers(frames[t].event.Type))
    /\ [][\A t \in Publishers : ReadsMiddleware(t) => ~WritesMiddleware]_vars

\* the reads of Publish that do happen under the lock: the lookup of the
\* handler map of line 361
C36_LookupUnderLock ==
    \A t \in Publishers : frames[t].pc = "runlock" => t \in bmu.r /\ bmu.w = None

\* the number of batches passed to SendEvents that hold event e
BatchesWith(e) == Cardinality({k \in 1..Len(sent) : InBuf(sent[k].events, e)})

\* the loop of processEvents has returned: nothing reads rec.events and
\* nothing calls sendBatch any more
LoopReturned == proc = "returned"

\* C37: no accepted event is lost by the remote consumer.  Every event whose
\* Consume returned nil is included in exactly one batch passed to SendEvents,
\* also the events still queued or pending when the context is cancelled:
\* when the processing loop has returned, each of them has been sent once.
C37_NoAcceptedEventLost ==
    LoopReturned =>
      \A e \in 1..Len(consumeRet) : consumeRet[e].err = Nil => BatchesWith(e) = 1

\* no accepted event is passed to SendEvents twice, and none that was refused
C37_AtMostOnce ==
    \A e \in 1..Len(consumeRet) :
      BatchesWith(e) <= (IF consumeRet[e].err = Nil THEN 1 ELSE 0)

\* the publish numbers of the events placed on the stream's channel so far
OnStream ==
    {streamBuf[k][2] : k \in 1..Len(streamBuf)} \cup {x[3] : x \in {y \in got : y[1] = "stream"}}

\* C38: teardown of an EventStream.  After Close its subscriptions are
\* removed and its blocked handlers return; and no handler that started after
\* Close returned places its event on the stream's channel: the channel holds
\* no event of a Publish that was called after Close returned.
C38_NoSendAfterClose ==
    stream = "closed" => \A p \in OnStream : p <= closedAt

\* what Close does achieve: once every subscription of the stream is removed
\* and the handlers already started have returned, the channel gets no event
C38_QuietAfterCleanup ==
    [][(/\ stream = "closed"
        /\ \A ty \in EventTypes : \A id \in DOMAIN subscribers[ty] :
             subscribers[ty][id] # "hStream"
        /\ \A g \in BagToSet(inflight) : g.handler # "hStream")
       => streamBuf' = streamBuf \/ Len(streamBuf') < Len(streamBuf)]_vars

\* notify of goroutine t is about to send on channel c
AboutToSend(t, c) ==
    /\ calls[t].pc = "send"
    /\ calls[t].i <= Len(calls[t].chs)
    /\ calls[t].chs[calls[t].i] = c

\* C39: the TUI state store is safe under concurrent Subscribe, Unsubscribe
\* and Dispatch: notify never sends on a channel Unsubscribe has closed, it
\* never reads the subscriber table while a Subscribe or Unsubscribe is
\* modifying it, the process is not stopped, and the send of Subscribe finds
\* room, so that Subscribe returns without waiting on its channel.
C39_StoreSafety ==
    /\ \A t \in StoreThreads, c \in 1..Len(storeChans) :
         AboutToSend(t, c) => ~storeChans[c].closed
    /\ \A t \in StoreThreads : calls[t].pc \in {"range", "send"} => ~WritesSubs
    /\ crashed = None
    /\ \A t \in StoreThreads : calls[t].pc # "blocked"

\* the part that holds: the send of Subscribe always finds room
C39_SubscribeNeverBlocks ==
    \A t \in StoreThreads : calls[t].pc # "blocked"

\* the step is a CheckFile call; LastCheck is what it returned
CheckStep == Len(checks') = Len(checks) + 1
LastCheck == checks'[Len(checks')]

\* C40: file checks are coherent with the repository.  A CheckFile that
\* follows a successful AddWorkflow for the same path never returns content
\* cached before that update: the content it returns is the content of the
\* file.  A not-found result is (false, nil, nil) and is never cached.
C40_CheckFileCoherence ==
    [][CheckStep =>
         /\ LastCheck.found => LastCheck.content.Content = remote[LastCheck.path].Content
         /\ (~LastCheck.found /\ LastCheck.err = Nil) =>
              LastCheck.content = Nil /\ fileCache' = fileCache]_vars

\* the part that holds: a file that does not exist and is not cached is
\* reported as (false, nil, nil) unless the API fails, and no check that
\* finds nothing writes to the cache
C40_NotFoundNotCached ==
    [][CheckStep =>
         /\ ~LastCheck.found => LastCheck.content = Nil /\ fileCache' = fileCache
         /\ (LastCheck.path \notin DOMAIN remote /\ ~LastCheck.hit) => ~LastCheck.found
         /\ (LastCheck.path \notin DOMAIN remote /\ LastCheck.err = Nil) =>
              ~LastCheck.found /\ LastCheck.content = Nil]_vars

====
